---------------------------- MODULE Spec2Model ----------------------------
(***************************************************************************)
(* BrainPy dynamical-system composition layer (brainpy/dyn/base.py):       *)
(* delay registration in the class-level registry global_delay_data,       *)
(* Network.update scheduling and Container construction.                   *)
(***************************************************************************)
EXTENDS Integers, Sequences, FiniteSets, TLC

(***************************************************************************)
(* Bounds of the model.                                                    *)
(***************************************************************************)
NumNodes == 3
NumKeys == 2
MaxTick == 4
NetMaxTick == 2
MaxBufs == 2
MaxRegs == 3
MaxArgs == 2
MaxList == 2
VecLen == 2
NumComps == 3
SynMaxTick == 6

Nodes == 1..NumNodes
Keys == 1..NumKeys

\* Every node n carries one state Variable, identified with n.
Targets == Nodes

\* A key names the Variable it delays, every call on it gives the same target: the
\* Variable of the NeuGroup for odd keys, of the SynConn for even keys.
TargetOf(identifier) == IF identifier % 2 = 1 THEN 2 ELSE 1

(***************************************************************************)
(* Values.  A Variable holds a tensor with leading dimension VecLen.  The  *)
(* value node n's update assigns to its Variable in tick j is Val(n, j):   *)
(* element e is stamped with the Variable, the tick and the element.       *)
(***************************************************************************)
Val(n, j) == [e \in 1..VecLen |-> 100 * n + 10 * j + e]

Broadcast(x) == [e \in 1..VecLen |-> x]

\* Python values of the arguments: None, an int, an integer/float array, a str.
PyNone == [kind |-> "none"]
PyInt(n) == [kind |-> "int", n |-> n]
PyArray(dtype, v) == [kind |-> "array", dtype |-> dtype, v |-> v]
PyStr == [kind |-> "str"]
PyNode(o) == [kind |-> "node", id |-> o]
PyList(items) == [kind |-> "list", items |-> items]
PyDict(items) == [kind |-> "dict", items |-> items]

\* the keys of the shared data: the step size, the time, the iteration index
\* and a named scalar
ShareKeys == {"dt", "t", "i", "x"}

\* brainpy.math.get_dt(): the global default step size
DefaultDt == 1

\* the shared record the driver hands to the update pass of tick i
Shared(i) == [t |-> i * DefaultDt, dt |-> DefaultDt, i |-> i, x |-> 7]

\* a key of _arguments that holds nothing, and one that holds v
NotSaved == [has |-> FALSE]

Saved(v) == [has |-> TRUE, v |-> v]

(***************************************************************************)
(* Collector (brainpy.base.collector): an insertion-ordered dict that      *)
(* refuses to bind a name to a second, different object.  Modelled as a    *)
(* sequence of <<key, value>> pairs.                                       *)
(***************************************************************************)
CKeys(c) == {c[i][1] : i \in 1..Len(c)}

CHas(c, k) == k \in CKeys(c)

CGet(c, k) == c[CHOOSE i \in 1..Len(c) : c[i][1] = k][2]

CValues(c) == [i \in 1..Len(c) |-> c[i][2]]

\* c[k] = v: [err, c]
CSetItem(c, k, v) ==
  IF CHas(c, k)
    THEN IF CGet(c, k) = v
           THEN [err |-> "ok", c |-> c]
           ELSE [err |-> "ValueError: name conflicts", c |-> c]
    ELSE [err |-> "ok", c |-> Append(c, <<k, v>>)]

(***************************************************************************)
(* LengthDelay (brainpy.math.delayvars): a rotating buffer of              *)
(* num_delay_step slots; slot (idx + d) % num_delay_step holds the value   *)
(* of lag d.                                                               *)
(***************************************************************************)
\* the fill of the slots behind lag 0: zeros when initial_delay_data is None
FillOf(init) == IF init.kind = "none" THEN Broadcast(0) ELSE Broadcast(init.n)

\* LengthDelay.reset(delay_target, delay_len, initial_delay_data), also run
\* by the constructor: the buffer is re-allocated, lag 0 holds the target's
\* value and every other lag the initial data.
LengthDelayReset(targetValue, delay_len, init) ==
  [num_delay_step |-> delay_len + 1,
   idx |-> 0,
   data |-> [i \in 1..(delay_len + 1) |->
               IF i = 1 THEN targetValue ELSE FillOf(init)]]

\* LengthDelay.update(value): rotate by one slot and store at lag 0.
LengthDelayUpdate(b, value) ==
  LET i == (b.idx - 1) % b.num_delay_step
  IN  [b EXCEPT !.idx = i, !.data[i + 1] = value]

\* LengthDelay.__call__(delay_len): the whole slice at that lag.
LengthDelayRetrieve(b, d) == b.data[((b.idx + d) % b.num_delay_step) + 1]

\* LengthDelay.__call__(delay_step, arange): element e at its own lag.
LengthDelayRetrieveHeter(b, steps) ==
  [e \in 1..Len(steps) |-> LengthDelayRetrieve(b, steps[e])[e]]

VARIABLES
  V,                  \* V[n]: the value of node n's Variable
  global_delay_data,  \* DynamicalSystem.global_delay_data: key -> (delay, target)
  heap,               \* the LengthDelay objects created so far, by identity
  local_delay_vars,   \* local_delay_vars[n]: Collector key -> LengthDelay identity
  implicit_nodes,     \* the Network's child map (Collector name -> node)
  tick,               \* number of Network.update calls made
  updLog,             \* probe: the nodes updated by the last Network.update, in order
  reads,              \* probe: the get_delay_data reads made by children in that call
  writes,             \* probe: delay.update calls per key in that call
  err,                \* outcome of the last call ("ok" or the exception)
  ret,                \* value returned by the last register_delay
  reg,                \* history: per key, how its buffer was last (re)initialised
  Vhist,              \* history: V at the end of every tick
  nreg,               \* number of register_delay calls made
  call,               \* the arguments implicit_nodes was constructed from
  built,              \* whether the constructor returned (did not raise)
  users,              \* history: per key, the nodes that registered it with a delay
  resetLog,           \* probe: the nodes reset by the last reset_state call, in order
  alive,              \* the nodes that have not been destroyed
  master,             \* master[c]: the master attribute of synaptic component c
  twoEnd,             \* twoEnd[o]: the TwoEndConn constructed as object o
  grp,                \* grp[g]: the CondNeuGroup g (configuration, V, spike, input)
  trace,              \* history: per tick, the spikes emitted and the inputs integrated
  share,              \* _ShareContext._arguments: key -> saved value
  tdi,                \* the shared record of the last update pass, as the pass left it
  seen,               \* probe: the shared records the children of that pass were given
  chanLog,            \* probe: the events of the last CondNeuGroup.update
  parent              \* parent[n]: the child n is nested below, n for the root, 0 for none

\* the state of the synaptic components, connections and neuron groups
aux == <<resetLog, alive, master, twoEnd, grp, trace>>

\* the shared context and the shared record of an update pass
ctx == <<share, tdi, seen, chanLog, parent>>

vars == <<V, global_delay_data, heap, local_delay_vars, implicit_nodes, tick,
          updLog, reads, writes, err, ret, reg, Vhist, nreg, call, built, users,
          resetLog, alive, master, twoEnd, grp, trace, share, tdi, seen, chanLog,
          parent>>

(***************************************************************************)
(* DynamicalSystem.register_delay                                          *)
(***************************************************************************)
NoEntry == [has |-> FALSE, delay |-> 0, target |-> 0]

\* a registry entry (delay, target); delay 0 is None, otherwise the identity
\* of a LengthDelay in the heap
Entry(delay, target) == [has |-> TRUE, delay |-> delay, target |-> target]

\* isinstance(delay_target, bm.Variable): the Variables are the nodes' own;
\* target 0 is a plain array of the same shape
IsVariable(target) == target \in Targets

SeqMax(v) == CHOOSE m \in {v[i] : i \in 1..Len(v)} : \A i \in 1..Len(v) : v[i] <= m

\* lines 146-161: 'none', 'homo', 'heter', or an unsupported type
DelayType(delay_step) ==
  CASE delay_step.kind = "none" -> "none"
    [] delay_step.kind = "int" -> "homo"
    [] delay_step.kind = "array" -> "heter"
    [] OTHER -> "unknown"

\* line 170: int(bm.max(delay_step))
MaxDelayStep(delay_step) ==
  IF delay_step.kind = "int" THEN delay_step.n ELSE SeqMax(delay_step.v)

\* variant: the growing reset is not handed initial_delay_data
RegisterDelayDropsInit(g, h, l, identifier, delay_step, delay_target, init) ==
  IF DelayType(delay_step) = "none"
    THEN [g |-> [g EXCEPT ![identifier] = Entry(0, delay_target)],
          h |-> h, l |-> l, err |-> "ok"]
    ELSE
      LET max_delay_step == MaxDelayStep(delay_step)
          created == LengthDelayReset(V[delay_target], max_delay_step, init)
          new == Len(h) + 1
          set == CSetItem(l, identifier, new)
          delay == g[identifier].delay
      IN  IF ~g[identifier].has \/ delay = 0
            THEN [g |-> [g EXCEPT ![identifier] = Entry(new, delay_target)],
                  h |-> Append(h, created),
                  l |-> set.c, err |-> set.err]
            ELSE IF h[delay].num_delay_step - 1 < max_delay_step
                   THEN [g |-> g,
                         h |-> [h EXCEPT ![delay] =
                                  LengthDelayReset(V[delay_target], max_delay_step, PyNone)],
                         l |-> l, err |-> "ok"]
                   ELSE [g |-> g, h |-> h, l |-> l, err |-> "ok"]

\* variant: a node that does not hold the key yet gets a buffer of its own
RegisterDelayPerNode(g, h, l, identifier, delay_step, delay_target, init) ==
  IF DelayType(delay_step) = "none"
    THEN [g |-> [g EXCEPT ![identifier] = Entry(0, delay_target)],
          h |-> h, l |-> l, err |-> "ok"]
    ELSE
      LET max_delay_step == MaxDelayStep(delay_step)
          created == LengthDelayReset(V[delay_target], max_delay_step, init)
          new == Len(h) + 1
          set == CSetItem(l, identifier, new)
          delay == g[identifier].delay
      IN  IF ~g[identifier].has \/ delay = 0 \/ ~CHas(l, identifier)
            THEN [g |-> [g EXCEPT ![identifier] = Entry(new, delay_target)],
                  h |-> Append(h, created),
                  l |-> set.c, err |-> set.err]
            ELSE IF h[delay].num_delay_step - 1 < max_delay_step
                   THEN [g |-> g,
                         h |-> [h EXCEPT ![delay] = created],
                         l |-> l, err |-> "ok"]
                   ELSE [g |-> g, h |-> h, l |-> l, err |-> "ok"]

\* lines 178-192 on the registry g, the heap h and self's local_delay_vars l
RegisterDelayVariable(g, h, l, identifier, delay_step, delay_target, init) ==
  IF DelayType(delay_step) = "none"
    THEN [g |-> [g EXCEPT ![identifier] = Entry(0, delay_target)],
          h |-> h, l |-> l, err |-> "ok"]
    ELSE
      LET max_delay_step == MaxDelayStep(delay_step)
          created == LengthDelayReset(V[delay_target], max_delay_step, init)
          new == Len(h) + 1
          set == CSetItem(l, identifier, new)
          delay == g[identifier].delay
      IN  IF ~g[identifier].has \/ delay = 0
            THEN [g |-> [g EXCEPT ![identifier] = Entry(new, delay_target)],
                  h |-> Append(h, created),
                  l |-> set.c, err |-> set.err]
            ELSE IF h[delay].num_delay_step - 1 < max_delay_step
                   THEN [g |-> g,
                         h |-> [h EXCEPT ![delay] = created],
                         l |-> l, err |-> "ok"]
                   ELSE [g |-> g, h |-> h, l |-> l, err |-> "ok"]

\* register_delay(self, identifier, delay_step, delay_target, initial_delay_data):
\* the checks of lines 146-175, then the registry update
RegisterDelayCall(g, h, l, identifier, delay_step, delay_target, init) ==
  LET unchanged(e) == [g |-> g, h |-> h, l |-> l, err |-> e]
      type == DelayType(delay_step)
  IN  IF type = "unknown"
        THEN unchanged("ValueError: unknown delay_steps type")
      ELSE IF type = "heter" /\ delay_step.dtype \notin {"int32", "int64"}
        THEN unchanged("ValueError: only int32, int64")
      ELSE IF type = "heter" /\ VecLen # Len(delay_step.v)
        THEN unchanged("ValueError: shape is mismatched")
      ELSE IF type # "none" /\ ~IsVariable(delay_target)
        THEN unchanged("ValueError: delay_target must be a Variable")
      ELSE RegisterDelayVariable(g, h, l, identifier, delay_step, delay_target, init)

(***************************************************************************)
(* DynamicalSystem.get_delay_data, on the registry g, the heap h, self's   *)
(* local_delay_vars l and the Variables' values v: [err, val]              *)
(***************************************************************************)
\* variant: the lag asked for is ignored
RetrieveNewest(b, delay_step) == LengthDelayRetrieve(b, 0)

\* variant: every element is read at the lag of the first
RetrieveFirstLag(b, delay_step) ==
  IF delay_step.kind = "int"
    THEN LengthDelayRetrieve(b, delay_step.n)
    ELSE LengthDelayRetrieve(b, delay_step.v[1])

\* the buffer called with a lag, or with a lag per element and
\* indices = arange(delay_step.size)
Retrieve(b, delay_step) ==
  IF delay_step.kind = "int"
    THEN LengthDelayRetrieve(b, delay_step.n)
    ELSE LengthDelayRetrieveHeter(b, delay_step.v)

\* variant: a read with delay_step None is served from the key's buffer
GetDelayDataFromBuffer(g, h, l, v, identifier, delay_step) ==
  IF delay_step.kind = "none"
    THEN IF ~g[identifier].has
           THEN [err |-> "KeyError", val |-> <<>>]
         ELSE IF g[identifier].delay # 0
           THEN [err |-> "ok", val |-> LengthDelayRetrieve(h[g[identifier].delay], 0)]
         ELSE [err |-> "ok", val |-> v[g[identifier].target]]
  ELSE IF g[identifier].has
    THEN IF g[identifier].delay = 0
           THEN [err |-> "TypeError: NoneType is not callable", val |-> <<>>]
           ELSE [err |-> "ok", val |-> Retrieve(h[g[identifier].delay], delay_step)]
  ELSE IF CHas(l, identifier)
    THEN [err |-> "ok", val |-> Retrieve(h[CGet(l, identifier)], delay_step)]
  ELSE [err |-> "ValueError: not defined in delay variables", val |-> <<>>]

\* variant: a key that is registered nowhere reads as zeros
GetDelayDataDefaultsZeros(g, h, l, v, identifier, delay_step) ==
  IF delay_step.kind = "none"
    THEN IF ~g[identifier].has
           THEN [err |-> "ok", val |-> Broadcast(0)]
         ELSE IF ~IsVariable(g[identifier].target)
           THEN [err |-> "AttributeError: no value", val |-> <<>>]
         ELSE [err |-> "ok", val |-> v[g[identifier].target]]
  ELSE IF g[identifier].has
    THEN IF g[identifier].delay = 0
           THEN [err |-> "TypeError: NoneType is not callable", val |-> <<>>]
           ELSE [err |-> "ok", val |-> Retrieve(h[g[identifier].delay], delay_step)]
  ELSE IF CHas(l, identifier)
    THEN [err |-> "ok", val |-> Retrieve(h[CGet(l, identifier)], delay_step)]
  ELSE [err |-> "ok", val |-> Broadcast(0)]

GetDelayData(g, h, l, v, identifier, delay_step) ==
  IF delay_step.kind = "none"
    THEN IF ~g[identifier].has
           THEN [err |-> "KeyError", val |-> <<>>]
         ELSE IF ~IsVariable(g[identifier].target)
           THEN [err |-> "AttributeError: no value", val |-> <<>>]
         ELSE [err |-> "ok", val |-> v[g[identifier].target]]
  ELSE IF g[identifier].has
    THEN IF g[identifier].delay = 0
           THEN [err |-> "TypeError: NoneType is not callable", val |-> <<>>]
           ELSE [err |-> "ok", val |-> Retrieve(h[g[identifier].delay], delay_step)]
  ELSE IF CHas(l, identifier)
    THEN [err |-> "ok", val |-> Retrieve(h[CGet(l, identifier)], delay_step)]
  ELSE [err |-> "ValueError: not defined in delay variables", val |-> <<>>]

(***************************************************************************)
(* DynamicalSystem.__del__ on the registry g and self's local_delay_vars l *)
(***************************************************************************)
\* lines 308-313: for every key of the local map, pop it from the registry,
\* then from the local map; a key the registry does not hold raises KeyError
\* and ends the teardown there
RECURSIVE DelCall(_, _)
DelCall(g, l) ==
  IF l = <<>> THEN [g |-> g, l |-> l, err |-> "ok"]
  ELSE IF ~g[l[1][1]].has THEN [g |-> g, l |-> l, err |-> "KeyError"]
  ELSE DelCall([g EXCEPT ![l[1][1]] = NoEntry], Tail(l))

(***************************************************************************)
(* Tensors and brainpy.initialize.variable.  A tensor is a shape and the   *)
(* value its elements share.                                               *)
(***************************************************************************)
Tensor(shape, val) == [shape |-> shape, val |-> val]

PyMode(name) == [kind |-> "mode", name |-> name]

\* variable(init, batch_size_or_mode, var_shape): unbatched for None and the
\* normal mode, a leading axis of the batch size for an int and of 1 for a
\* batching or training mode
VariableOf(val, batch_or_mode, var_shape) ==
  CASE batch_or_mode.kind = "none" -> Tensor(var_shape, val)
    [] batch_or_mode.kind = "int" -> Tensor(<<batch_or_mode.n>> \o var_shape, val)
    [] batch_or_mode.kind = "mode" /\ batch_or_mode.name = "normal" -> Tensor(var_shape, val)
    [] OTHER -> Tensor(<<1>> \o var_shape, val)

(***************************************************************************)
(* NeuGroup geometry and CondNeuGroup                                      *)
(***************************************************************************)
RECURSIVE size2num(_)
size2num(size) == IF size = <<>> THEN 1 ELSE Head(size) * size2num(Tail(size))

\* NeuGroup.varshape
varshape(g) == IF g.keep_size THEN g.size ELSE <<size2num(g.size)>>

\* NeuGroup.get_batch_shape(batch_size)
get_batch_shape(g, batch_size) ==
  IF batch_size.kind = "none" THEN varshape(g) ELSE <<batch_size.n>> \o varshape(g)

\* the value V_initializer gives and the threshold V_th of the groups
VInit == 0 - 1

VTh == 0

\* CondNeuGroup.__init__ after the two base constructors: the parameters
\* and the Variables V, input, spike (lines 936-953)
CondNeuGroupInit(cls, size, keep_size, mode) ==
  LET g == [cls |-> cls, size |-> size, keep_size |-> keep_size, mode |-> mode]
  IN  [cls |-> cls, size |-> size, keep_size |-> keep_size, mode |-> mode,
       V |-> VariableOf(VInit, mode, varshape(g)),
       input |-> VariableOf(0, mode, varshape(g)),
       spike |-> VariableOf(0, mode, varshape(g)),
       integrated |-> 0]

\* variant: the input accumulator is not re-created
CondNeuGroupResetKeepsInput(g, batch_size) ==
  [g EXCEPT !.V = VariableOf(VInit, batch_size, varshape(g)),
            !.spike = VariableOf(0, batch_size, varshape(g))]

\* CondNeuGroup.reset_state(batch_size) (lines 962-966)
CondNeuGroupResetState(g, batch_size) ==
  [g EXCEPT !.V = VariableOf(VInit, batch_size, varshape(g)),
            !.spike = VariableOf(0, batch_size, varshape(g)),
            !.input = VariableOf(0, batch_size, varshape(g))]

\* self.integral(self.V.value, t, dt) without channels: one explicit step of
\* dV/dt = Iext / C, in units where the step of the input is the input
Integral(g) == g.V.val + g.input.val

\* variant: the input accumulator is not cleared
CondNeuGroupUpdateKeepsInput(g) ==
  LET Vnew == Integral(g)
  IN  [g EXCEPT !.integrated = g.input.val,
                !.spike.val = IF Vnew >= VTh /\ g.V.val < VTh THEN 1 ELSE 0,
                !.V.val = Vnew]

\* variant: the input accumulator is cleared before the integration
CondNeuGroupUpdateClearsFirst(g) ==
  LET Vnew == g.V.val
  IN  [g EXCEPT !.integrated = 0,
                !.spike.val = IF Vnew >= VTh /\ g.V.val < VTh THEN 1 ELSE 0,
                !.input.val = 0,
                !.V.val = Vnew]

\* variant: a unit spikes whenever the new voltage is at or above threshold
CondNeuGroupUpdateSpikesAbove(g) ==
  LET Vnew == Integral(g)
  IN  [g EXCEPT !.integrated = g.input.val,
                !.spike.val = IF Vnew >= VTh THEN 1 ELSE 0,
                !.input.val = 0,
                !.V.val = Vnew]

\* CondNeuGroup.update(tdi) (lines 968-975); integrated is a probe: the input
\* the integrator was given
CondNeuGroupUpdate(g) ==
  LET Vnew == Integral(g)
  IN  [g EXCEPT !.integrated = g.input.val,
                !.spike.val = IF Vnew >= VTh /\ g.V.val < VTh THEN 1 ELSE 0,
                !.input.val = 0,
                !.V.val = Vnew]

\* TwoEndConn.syn2post_with_one2one(syn_value, syn_weight)
syn2post_with_one2one(syn_value, syn_weight) == syn_value * syn_weight

\* the update of a one-to-one synapse c that adds g_max to the input of its
\* post group for every spike of its pre group, on the groups gs
SynapseUpdate(c, gs) ==
  [gs EXCEPT ![c.post].input.val =
     @ + syn2post_with_one2one(gs[c.pre].spike.val, c.g_max)]

(***************************************************************************)
(* The node classes.  A child's update is a probe: it reads every delay    *)
(* that can be read and assigns its Variable the value of the tick.        *)
(***************************************************************************)
\* an object built as a CondNeuGroup is a NeuGroup
KindOf(n) ==
  CASE n \in DOMAIN grp -> "NeuGroup"
    [] n % 3 = 1 -> "SynConn"
    [] n % 3 = 2 -> "NeuGroup"
    [] OTHER -> "other"

IsSynConn(n) == KindOf(n) = "SynConn"

IsNeuGroup(n) == KindOf(n) = "NeuGroup"

\* the lags a reader may ask of a key: None (as -1), and 0..capacity
Lags(g, h, identifier) ==
  IF g[identifier].has /\ g[identifier].delay # 0
    THEN 0..(h[g[identifier].delay].num_delay_step - 1)
    ELSE {}

StepOf(d) == IF d = -1 THEN PyNone ELSE PyInt(d)

ChildReads(n, st) ==
  UNION {{[node |-> n, key |-> k, lag |-> d,
           got |-> GetDelayData(global_delay_data, st.h, local_delay_vars[n],
                                st.v, k, StepOf(d))] :
            d \in {-1} \cup Lags(global_delay_data, st.h, k)} :
         k \in {i \in Keys : global_delay_data[i].has}}

\* the nodes nested below child n, in the order of their names
NestedBelow(n) ==
  LET below == {m \in Nodes \ {n} : parent[m] = n}
  IN  [i \in 1..Cardinality(below) |->
         CHOOSE m \in below : Cardinality({x \in below : x < m}) = i - 1]

\* node.update(shared) of child n in tick st.i: the probe, and the update of
\* its class when the child is a CondNeuGroup or a constructed TwoEndConn
\* a child that is a composite (a generic Container, a CondNeuGroup with its
\* channels) updates the nodes nested below it in the same call
RECURSIVE ChildUpdate(_, _)
RECURSIVE UpdateNodes(_, _)
ChildUpdate(n, st) ==
  LET s1 == [st EXCEPT !.reads = @ \cup ChildReads(n, st),
                       !.v[n] = Val(n, st.i),
                       !.log = Append(@, n),
                       !.seen = Append(@, st.shared)]
      s2 == IF n \in DOMAIN st.grp
              THEN [s1 EXCEPT !.grp[n] = CondNeuGroupUpdate(@)]
            ELSE IF n \in DOMAIN twoEnd /\ twoEnd[n].made
              THEN [s1 EXCEPT !.grp = SynapseUpdate(twoEnd[n], @)]
            ELSE s1
  IN  UpdateNodes(NestedBelow(n), s2)

UpdateNodes(group, st) ==
  IF group = <<>> THEN st
  ELSE UpdateNodes(Tail(group), ChildUpdate(Head(group), st))

(***************************************************************************)
(* DynamicalSystem.update_local_delays(nodes)                              *)
(***************************************************************************)
RECURSIVE LocalNames(_)
LocalNames(nodes) ==
  IF nodes = <<>> THEN <<>>
  ELSE [i \in 1..Len(local_delay_vars[Head(nodes)]) |->
          local_delay_vars[Head(nodes)][i][1]] \o LocalNames(Tail(nodes))

RECURSIVE RefreshNames(_, _)
RefreshNames(names, st) ==
  IF names = <<>> \/ st.err # "ok" THEN st
  ELSE LET e == global_delay_data[Head(names)]
       IN  IF ~e.has
             THEN [st EXCEPT !.err = "KeyError"]
           ELSE IF e.delay = 0
             THEN [st EXCEPT !.err = "AttributeError: NoneType has no update"]
           ELSE RefreshNames(Tail(names),
                  [st EXCEPT !.h[e.delay] = LengthDelayUpdate(@, st.v[e.target]),
                             !.writes[Head(names)] = @ + 1])

UpdateLocalDelays(nodes, st) == RefreshNames(LocalNames(nodes), st)

(***************************************************************************)
(* Network.update                                                          *)
(***************************************************************************)
\* Collector.unique(): the distinct objects, in order of first appearance
RECURSIVE Unique(_)
Unique(s) ==
  IF s = <<>> THEN <<>>
  ELSE LET r == Unique(SubSeq(s, 1, Len(s) - 1))
       IN  IF \E i \in 1..Len(r) : r[i] = s[Len(s)] THEN r ELSE Append(r, s[Len(s)])

\* self.nodes(level=1, include_self=False).subset(DynamicalSystem).unique()
ChildNodes(c) ==
  LET nodes == SelectSeq(CValues(c), LAMBDA x : x.kind = "node")
  IN  Unique([i \in 1..Len(nodes) |-> nodes[i].id])

IsOther(n) == ~IsNeuGroup(n) /\ ~IsSynConn(n)

\* variant: the neuron groups are updated before the synapses
NetworkUpdateNeuronsFirst(nodes, st) ==
  LET neuron_groups == SelectSeq(nodes, IsNeuGroup)
      synapse_groups == SelectSeq(nodes, IsSynConn)
      other_nodes == SelectSeq(nodes, IsOther)
      s1 == UpdateNodes(neuron_groups, st)
      s2 == UpdateNodes(synapse_groups, s1)
      s3 == UpdateNodes(other_nodes, s2)
  IN  UpdateLocalDelays(nodes, s3)

\* variant: the delays are refreshed before the other nodes are updated
NetworkUpdateRefreshEarly(nodes, st) ==
  LET neuron_groups == SelectSeq(nodes, IsNeuGroup)
      synapse_groups == SelectSeq(nodes, IsSynConn)
      other_nodes == SelectSeq(nodes, IsOther)
      s1 == UpdateNodes(synapse_groups, st)
      s2 == UpdateNodes(neuron_groups, s1)
      s3 == UpdateLocalDelays(nodes, s2)
  IN  UpdateNodes(other_nodes, s3)

\* variant: the other nodes are all nodes but the synapses
NetworkUpdateOthersOverlap(nodes, st) ==
  LET neuron_groups == SelectSeq(nodes, IsNeuGroup)
      synapse_groups == SelectSeq(nodes, IsSynConn)
      other_nodes == SelectSeq(nodes, LAMBDA n : ~IsSynConn(n))
      s1 == UpdateNodes(synapse_groups, st)
      s2 == UpdateNodes(neuron_groups, s1)
      s3 == UpdateNodes(other_nodes, s2)
  IN  UpdateLocalDelays(nodes, s3)

NetworkUpdateCall(nodes, st) ==
  LET neuron_groups == SelectSeq(nodes, IsNeuGroup)
      synapse_groups == SelectSeq(nodes, IsSynConn)
      other_nodes == SelectSeq(nodes, IsOther)
      s1 == UpdateNodes(synapse_groups, st)
      s2 == UpdateNodes(neuron_groups, s1)
      s3 == UpdateNodes(other_nodes, s2)
  IN  UpdateLocalDelays(nodes, s3)

(***************************************************************************)
(* Container.update and Sequential                                         *)
(***************************************************************************)
\* variant: the iteration index of the record is advanced for every child
RECURSIVE ContainerUpdateAdvances(_, _)
ContainerUpdateAdvances(nodes, st) ==
  IF nodes = <<>> THEN st
  ELSE ContainerUpdateAdvances(Tail(nodes),
         [ChildUpdate(Head(nodes), st) EXCEPT !.shared.i = @ + 1])

\* Container.update(tdi) (lines 419-427): node.update(tdi) for every child
ContainerUpdateCall(nodes, st) == UpdateNodes(nodes, st)

\* what child n returns for the input x
Out(n, x) == 10 * x + n

NotCallable == "TypeError: object is not callable"

\* variant: every child is given the input of the first
RECURSIVE SequentialUpdateSameInput(_, _, _)
SequentialUpdateSameInput(values, st, x) ==
  IF values = <<>> \/ st.err # "ok" THEN st
  ELSE IF Head(values).kind # "node" THEN [st EXCEPT !.err = NotCallable]
  ELSE SequentialUpdateSameInput(Tail(values),
         [ChildUpdate(Head(values).id, st) EXCEPT !.x = Out(Head(values).id, x)], x)

\* Sequential.update(sha, x) (lines 1124-1126): x = node(sha, x) for every
\* value of the child map; st.x is the x of the loop
RECURSIVE SequentialUpdateCall(_, _, _)
SequentialUpdateCall(values, st, x) ==
  IF values = <<>> \/ st.err # "ok" THEN st
  ELSE IF Head(values).kind # "node" THEN [st EXCEPT !.err = NotCallable]
  ELSE SequentialUpdateCall(Tail(values),
         [ChildUpdate(Head(values).id, st) EXCEPT !.x = Out(Head(values).id, st.x)],
         x)

(***************************************************************************)
(* reset_state: the default of DynamicalSystem and the one of Network      *)
(***************************************************************************)
\* node.reset_state(batch_size) of a child: its Variable is back at its
\* initial value; a CondNeuGroup re-creates its three Variables
ChildResetState(n, st, batch_size) ==
  LET s1 == [st EXCEPT !.v[n] = Val(n, 0),
                       !.log = Append(@, [node |-> n, batch_size |-> batch_size])]
  IN  IF n \in DOMAIN st.grp
        THEN [s1 EXCEPT !.grp[n] = CondNeuGroupResetState(@, batch_size)]
        ELSE s1

RECURSIVE ResetNodes(_, _, _)
ResetNodes(group, st, batch_size) ==
  IF group = <<>> THEN st
  ELSE ResetNodes(Tail(group), ChildResetState(Head(group), st, batch_size), batch_size)

\* the loop body of reset_local_delays: delay.reset(target.value)
RECURSIVE ResetNames(_, _)
ResetNames(names, st) ==
  IF names = <<>> \/ st.err # "ok" THEN st
  ELSE LET e == global_delay_data[Head(names)]
       IN  IF ~e.has
             THEN [st EXCEPT !.err = "KeyError"]
           ELSE IF e.delay = 0
             THEN [st EXCEPT !.err = "AttributeError: NoneType has no reset"]
           ELSE ResetNames(Tail(names),
                  [st EXCEPT !.h[e.delay] =
                     LengthDelayReset(st.v[e.target], @.num_delay_step - 1, PyNone)])

\* DynamicalSystem.reset_local_delays(nodes)
ResetLocalDelays(nodes, st) == ResetNames(LocalNames(nodes), st)

\* variant: the delay buffers are reset before the children
NetworkResetDelaysFirst(nodes, st, batch_size) ==
  LET neuron_groups == SelectSeq(nodes, IsNeuGroup)
      synapse_groups == SelectSeq(nodes, IsSynConn)
      other_nodes == SelectSeq(nodes, IsOther)
      s0 == ResetLocalDelays(nodes, st)
      s1 == ResetNodes(neuron_groups, s0, batch_size)
      s2 == ResetNodes(synapse_groups, s1, batch_size)
  IN  ResetNodes(other_nodes, s2, batch_size)

\* Network.reset_state(batch_size)
NetworkResetStateCall(nodes, st, batch_size) ==
  LET neuron_groups == SelectSeq(nodes, IsNeuGroup)
      synapse_groups == SelectSeq(nodes, IsSynConn)
      other_nodes == SelectSeq(nodes, IsOther)
      s1 == ResetNodes(neuron_groups, st, batch_size)
      s2 == ResetNodes(synapse_groups, s1, batch_size)
      s3 == ResetNodes(other_nodes, s2, batch_size)
  IN  ResetLocalDelays(nodes, s3)

NoResetState == "NotImplementedError: must implement reset_state, error of net"

\* variant: the cascade stops after the first child
DefaultResetFirstChild(nodes, st, batch_size) ==
  IF Len(nodes) > 0
    THEN ResetNodes(<<Head(nodes)>>, st, batch_size)
    ELSE [st EXCEPT !.err = NoResetState]

\* DynamicalSystem.reset_state(batch_size) (lines 253-262)
DefaultResetStateCall(nodes, st, batch_size) ==
  IF Len(nodes) > 0
    THEN ResetNodes(nodes, st, batch_size)
    ELSE [st EXCEPT !.err = NoResetState]

\* update of a class that does not override it
BaseClasses == {"DynamicalSystem", "NeuGroup", "SynConn", "Channel"}

BaseUpdateCall(cls) ==
  CASE cls = "NeuGroup" -> "NotImplementedError: subclass of NeuGroup must implement update"
    [] cls = "Channel" -> "NotImplementedError: must be implemented by the subclass"
    [] OTHER -> "NotImplementedError: must implement update function by subclass"

(***************************************************************************)
(* Container.__init__ with positional ds_tuple and keyword ds_dict         *)
(***************************************************************************)
\* Objects are the nodes and, for every node, a second object that carries
\* the same name.
Objects == 1..(2 * NumNodes)

NameOf(o) == IF o > NumNodes THEN o - NumNodes ELSE o

\* isinstance(x, DynamicalSystem)
IsDynamicalSystem(x) == x.kind = "node"

NotDS == "ValueError: should be instance of DynamicalSystem"

\* for m in module: ... self.implicit_nodes[m.name] = module   (lines 392-396)
RECURSIVE AddSequence(_, _, _)
AddSequence(r, module, rest) ==
  IF rest = <<>> \/ r.err # "ok" THEN r
  ELSE IF ~IsDynamicalSystem(Head(rest)) THEN [r EXCEPT !.err = NotDS]
  ELSE AddSequence(CSetItem(r.c, NameOf(Head(rest).id), module), module, Tail(rest))

\* for k, v in module.items(): ... self.implicit_nodes[k] = v  (lines 398-402, 407-411)
RECURSIVE AddItems(_, _)
AddItems(r, items) ==
  IF items = <<>> \/ r.err # "ok" THEN r
  ELSE IF ~IsDynamicalSystem(Head(items)[2]) THEN [r EXCEPT !.err = NotDS]
  ELSE AddItems(CSetItem(r.c, Head(items)[1], Head(items)[2]), Tail(items))

\* variant: a bare node replaces whatever holds its name
AddModuleOverwrite(r, module) ==
  CASE module.kind = "node" ->
         [r EXCEPT !.c = SelectSeq(r.c, LAMBDA p : p[1] # NameOf(module.id))
                           \o <<<<NameOf(module.id), module>>>>]
    [] module.kind = "list" -> AddSequence(r, module, module.items)
    [] module.kind = "dict" -> AddItems(r, module.items)
    [] OTHER -> [r EXCEPT !.err = "ValueError: cannot parse sub-systems"]

\* one positional argument (lines 389-405)
AddModule(r, module) ==
  CASE module.kind = "node" -> CSetItem(r.c, NameOf(module.id), module)
    [] module.kind = "list" -> AddSequence(r, module, module.items)
    [] module.kind = "dict" -> AddItems(r, module.items)
    [] OTHER -> [r EXCEPT !.err = "ValueError: cannot parse sub-systems"]

RECURSIVE AddModules(_, _)
AddModules(r, ds_tuple) ==
  IF ds_tuple = <<>> \/ r.err # "ok" THEN r
  ELSE AddModules(AddModule(r, Head(ds_tuple)), Tail(ds_tuple))

\* [err, c]: c is self.implicit_nodes when the constructor returns or raises
ContainerInit(ds_tuple, ds_dict) ==
  AddItems(AddModules([err |-> "ok", c |-> <<>>], ds_tuple), ds_dict)

\* Container.__getitem__(item)
ContainerGetItem(c, item) ==
  IF CHas(c, item)
    THEN [err |-> "ok", val |-> CGet(c, item)]
    ELSE [err |-> "ValueError: unknown item", val |-> PyNone]

\* Container.__getattr__(item): a child of that name, else the attribute
ContainerGetAttr(c, item) ==
  IF CHas(c, item)
    THEN [err |-> "ok", val |-> CGet(c, item)]
    ELSE [err |-> "AttributeError", val |-> PyNone]

(***************************************************************************)
(* Sequential.__getitem__                                                  *)
(***************************************************************************)
\* keys of Sequential.__getitem__: a name, a slice a:b, an int, a list
PyName(k) == [kind |-> "name", k |-> k]

PySlice(a, b) == [kind |-> "slice", a |-> a, b |-> b]

\* a Sequential returned by __getitem__, with its child map
PySeq(c) == [kind |-> "seq", c |-> c]

\* tuple(...)[a:b] for 0 <= a, 0 <= b
Slice(t, a, b) ==
  LET hi == IF b > Len(t) THEN Len(t) ELSE b
  IN  IF a >= hi THEN <<>> ELSE SubSeq(t, a + 1, hi)

\* Sequential(dict(zip(keys, vals)))
SequentialOf(items) ==
  LET r == ContainerInit(<<PyDict(items)>>, <<>>)
  IN  [err |-> r.err, val |-> IF r.err = "ok" THEN PySeq(r.c) ELSE PyNone]

\* the loop of lines 1076-1080 over the elements of a list key
\* its first element raises: an int by line 1077, anything else as a tuple
\* index in line 1079
PickItems(key) ==
  IF key = <<>> THEN [err |-> "ok", items |-> <<>>]
  ELSE IF Head(key).kind = "int"
    THEN [err |-> "KeyError: we excepted a tuple/list of int", items |-> <<>>]
  ELSE [err |-> "TypeError: tuple indices must be integers", items |-> <<>>]

\* Sequential.__getitem__(key) on the child map c: [err, val]
SequentialGetItem(c, key) ==
  CASE key.kind = "name" ->
         IF CHas(c, key.k)
           THEN [err |-> "ok", val |-> CGet(c, key.k)]
           ELSE [err |-> "KeyError: does not find a component", val |-> PyNone]
    [] key.kind = "slice" -> SequentialOf(Slice(c, key.a, key.b))
    [] key.kind = "int" ->
         IF key.n < Len(c) /\ key.n >= 0 - Len(c)
           THEN [err |-> "ok", val |-> CValues(c)[(key.n % Len(c)) + 1]]
           ELSE [err |-> "IndexError", val |-> PyNone]
    [] key.kind = "list" ->
         LET r == PickItems(key.items)
         IN  IF r.err = "ok" THEN SequentialOf(r.items)
             ELSE [err |-> r.err, val |-> PyNone]
    [] OTHER -> [err |-> "KeyError: unknown type of key", val |-> PyNone]

(***************************************************************************)
(* The inputs.                                                             *)
(***************************************************************************)
HeterSteps == [e \in 1..VecLen |-> IF e = 1 THEN 1 ELSE 3]

StepChoices == {PyNone, PyInt(3), PyInt(5), PyArray("int32", HeterSteps)}

InitChoices == {PyNone, PyInt(-1)}

\* the tuples of distinct bare nodes a Network is built from
ChildTuples ==
  {t \in UNION {[1..m -> Nodes] : m \in 2..NumNodes} :
     \A i, j \in 1..Len(t) : i # j => t[i] # t[j]}

\* the arguments of Network.__init__ over a tuple of bare nodes
BareArgs(t) ==
  [made |-> TRUE, ds_tuple |-> [i \in 1..Len(t) |-> PyNode(t[i])], ds_dict |-> <<>>]

\* before any constructor call
NoCall == [made |-> FALSE, ds_tuple |-> <<>>, ds_dict |-> <<>>]

\* what a constructor may be given: nodes 1 and 2, a second object named
\* like node 1, and an int
ContItems == {PyNode(1), PyNode(2), PyNode(NumNodes + 1), PyInt(0)}

ContLists == {PyList(l) : l \in UNION {[1..m -> ContItems] : m \in 1..MaxList}}

ContEntries == {<<k, v>> : k \in 1..2, v \in ContItems}

ContDicts == {PyDict(<<e>>) : e \in ContEntries}

ContModules == ContItems \cup ContLists \cup ContDicts

ContTuples == UNION {[1..m -> ContModules] : m \in 0..MaxArgs}

ContKeywords == {<<>>} \cup {<<e>> : e \in ContEntries}

\* history of a key's buffer: the ticks since it was (re)initialised, counted
\* up to its capacity + 1, the fill it got then (while a lag can still show
\* it), and whether every tick since has refreshed it exactly once
NoReg == [made |-> FALSE, age |-> 0, fill |-> <<>>, good |-> FALSE]

\* the synaptic components: a SynOutput, a SynSTP, a SynLTP, ...
Comps == 1..NumComps

\* the objects that are synaptic connections
Conns == {o \in Objects : IsSynConn(o)}

\* no TwoEndConn has been constructed as this object
NoConn == [made |-> FALSE]

\* the state after construction, for the calls args, the groups built and
\* the nestings parents
InitTree(args, groups, parents) ==
  /\ V = [n \in Nodes |-> Val(n, 0)]
  /\ global_delay_data = [k \in Keys |-> NoEntry]
  /\ heap = <<>>
  /\ local_delay_vars = [n \in Nodes |-> <<>>]
  /\ \E a \in args :
       /\ call = a
       /\ implicit_nodes = ContainerInit(a.ds_tuple, a.ds_dict).c
       /\ built = a.made
  /\ tick = 0
  /\ updLog = <<>>
  /\ reads = {}
  /\ writes = [k \in Keys |-> 0]
  /\ err = "ok"
  /\ ret = PyNone
  /\ reg = [k \in Keys |-> NoReg]
  /\ Vhist = <<[n \in Nodes |-> Val(n, 0)]>>
  /\ nreg = 0
  /\ users = [k \in Keys |-> {}]
  /\ resetLog = <<>>
  /\ alive = Nodes
  /\ grp \in groups
  /\ master = [c \in Comps |-> 0]
  /\ twoEnd = [o \in Conns |-> NoConn]
  /\ trace = <<>>
  /\ share = [k \in ShareKeys |-> NotSaved]
  /\ tdi = PyNone
  /\ seen = <<>>
  /\ chanLog = <<>>
  /\ parent \in parents

\* no node is the root or nested below a child
Flat == [n \in Nodes |-> 0]

InitState(args, groups) == InitTree(args, groups, {Flat})

\* the state before any neuron group is built
InitWith(args) == InitState(args, {<<>>})

(***************************************************************************)
(* Actions.                                                                *)
(***************************************************************************)
\* whether the call (re)initialised the buffer of the key
Reinitialised(r, identifier) ==
  /\ r.g[identifier].delay # 0
  /\ \/ global_delay_data[identifier].delay # r.g[identifier].delay
     \/ heap[r.g[identifier].delay] # r.h[r.g[identifier].delay]

\* the history after a tick that made `n` refreshes of the key's buffer
Aged(r, n, capacity) ==
  IF ~r.made THEN r
  ELSE [made |-> TRUE,
        age |-> IF r.age > capacity THEN r.age ELSE r.age + 1,
        fill |-> IF r.age + 1 > capacity THEN <<>> ELSE r.fill,
        good |-> r.good /\ n = 1]

\* self.register_delay(identifier, delay_step, delay_target, initial_delay_data)
RegisterDelay(self, identifier, delay_step, delay_target, init) ==
  LET r == RegisterDelayCall(global_delay_data, heap, local_delay_vars[self],
                             identifier, delay_step, delay_target, init)
  IN  /\ nreg < MaxRegs
      /\ Len(r.h) <= MaxBufs
      /\ nreg' = nreg + 1
      /\ global_delay_data' = r.g
      /\ heap' = r.h
      /\ local_delay_vars' = [local_delay_vars EXCEPT ![self] = r.l]
      /\ err' = r.err
      /\ ret' = IF r.err = "ok" THEN delay_step ELSE PyNone
      /\ reg' = IF Reinitialised(r, identifier)
                  THEN [reg EXCEPT ![identifier] =
                          [made |-> TRUE, age |-> 0, fill |-> FillOf(init),
                           good |-> TRUE]]
                  ELSE IF r.g[identifier].delay = 0
                         THEN [reg EXCEPT ![identifier] = NoReg]
                         ELSE reg
      /\ users' = IF r.err = "ok" /\ DelayType(delay_step) # "none"
                    THEN [users EXCEPT ![identifier] = @ \cup {self}]
                    ELSE users
      /\ updLog' = <<>>
      /\ reads' = {}
      /\ writes' = [k \in Keys |-> 0]
      /\ UNCHANGED <<V, implicit_nodes, tick, Vhist, call, built>>
      /\ UNCHANGED aux
      /\ UNCHANGED ctx

\* net.update(shared): one tick
NetworkUpdate(maxTick) ==
  /\ tick < maxTick
  /\ LET st == NetworkUpdateCall(ChildNodes(implicit_nodes),
                                 [v |-> V, h |-> heap, log |-> <<>>, reads |-> {},
                                  writes |-> [k \in Keys |-> 0], err |-> "ok",
                                  i |-> tick + 1, grp |-> grp,
                                  shared |-> Shared(tick + 1), seen |-> <<>>])
     IN  /\ V' = st.v
         /\ heap' = st.h
         /\ updLog' = st.log
         /\ reads' = st.reads
         /\ writes' = st.writes
         /\ err' = st.err
         /\ Vhist' = Append(Vhist, st.v)
         /\ grp' = st.grp
         /\ tdi' = st.shared
         /\ seen' = st.seen
         /\ trace' = Append(trace, [g \in DOMAIN grp |->
                                      [spike |-> st.grp[g].spike.val,
                                       input |-> st.grp[g].integrated]])
         /\ reg' = [k \in Keys |->
                      IF global_delay_data[k].delay = 0 THEN reg[k]
                      ELSE Aged(reg[k], st.writes[k],
                                heap[global_delay_data[k].delay].num_delay_step - 1)]
  /\ tick' = tick + 1
  /\ ret' = PyNone
  /\ UNCHANGED <<global_delay_data, local_delay_vars, implicit_nodes, nreg, call,
                 built, users>>
  /\ UNCHANGED <<resetLog, alive, master, twoEnd, share, chanLog, parent>>

\* the history of the buffers after a reset_state call that left heap h
ResetHistory(h) ==
  [k \in Keys |->
     IF global_delay_data[k].delay = 0 THEN reg[k]
     ELSE IF h[global_delay_data[k].delay] # heap[global_delay_data[k].delay]
       THEN [made |-> TRUE, age |-> 0, fill |-> FillOf(PyNone), good |-> TRUE]
       ELSE [reg[k] EXCEPT !.good = FALSE]]

\* the effect of a reset_state call on the container
ResetEffect(st) ==
  /\ V' = st.v
  /\ heap' = st.h
  /\ resetLog' = st.log
  /\ err' = st.err
  /\ grp' = st.grp
  /\ ret' = PyNone
  /\ reg' = ResetHistory(st.h)
  /\ Vhist' = [Vhist EXCEPT ![Len(Vhist)] = st.v]
  /\ updLog' = <<>>
  /\ reads' = {}
  /\ writes' = [k \in Keys |-> 0]
  /\ UNCHANGED <<global_delay_data, local_delay_vars, implicit_nodes, tick, nreg, call,
                 built, users>>
  /\ UNCHANGED <<alive, master, twoEnd, trace>>
  /\ UNCHANGED ctx

\* net.reset_state(batch_size) on a Network
NetworkResetState(batch_size) ==
  ResetEffect(NetworkResetStateCall(ChildNodes(implicit_nodes),
                [v |-> V, h |-> heap, log |-> <<>>, err |-> "ok", grp |-> grp],
                batch_size))

\* c.reset_state(batch_size) on a container that does not override it
DefaultResetState(batch_size) ==
  ResetEffect(DefaultResetStateCall(ChildNodes(implicit_nodes),
                [v |-> V, h |-> heap, log |-> <<>>, err |-> "ok", grp |-> grp],
                batch_size))

\* x.update(...) on an object of a class that does not override update
BaseUpdate(cls) ==
  /\ err' = BaseUpdateCall(cls)
  /\ ret' = PyNone
  /\ UNCHANGED <<V, global_delay_data, heap, local_delay_vars, implicit_nodes, tick,
                 updLog, reads, writes, reg, Vhist, nreg, call, built, users>>
  /\ UNCHANGED aux
  /\ UNCHANGED ctx

Step(keys, steps, inits, maxTick) ==
  \/ \E self \in Nodes, identifier \in keys, delay_step \in steps, init \in inits :
       RegisterDelay(self, identifier, delay_step, TargetOf(identifier), init)
  \/ NetworkUpdate(maxTick)

\* delay registration and reading in a Network of a NeuGroup and a SynConn;
\* the third node is outside the Network
Init == InitWith({BareArgs(<<2, 1>>)})

Next == Step({1}, StepChoices, InitChoices, MaxTick)

Spec == Init /\ [][Next]_vars

\* Networks over every registration order of the children
NetInit == InitWith({BareArgs(t) : t \in ChildTuples})

NetNext == Step(Keys, {PyNone, PyInt(1)}, {PyNone}, NetMaxTick)

SpecNet == NetInit /\ [][NetNext]_vars

(***************************************************************************)
(* Container construction and child access.                                *)
(***************************************************************************)
\* Container(ds_tuple..., ds_dict...)
Construct(ds_tuple, ds_dict) ==
  LET r == ContainerInit(ds_tuple, ds_dict)
  IN  /\ ~call.made
      /\ call' = [made |-> TRUE, ds_tuple |-> ds_tuple, ds_dict |-> ds_dict]
      /\ built' = (r.err = "ok")
      /\ implicit_nodes' = r.c
      /\ err' = r.err
      /\ ret' = PyNone
      /\ UNCHANGED <<V, global_delay_data, heap, local_delay_vars, tick, updLog,
                     reads, writes, reg, Vhist, nreg, users>>
      /\ UNCHANGED aux
      /\ UNCHANGED ctx

\* container[item]
GetItem(item) ==
  LET r == ContainerGetItem(implicit_nodes, item)
  IN  /\ built
      /\ err' = r.err
      /\ ret' = r.val
      /\ UNCHANGED <<V, global_delay_data, heap, local_delay_vars, implicit_nodes,
                     tick, updLog, reads, writes, reg, Vhist, nreg, call, built, users>>
      /\ UNCHANGED aux
      /\ UNCHANGED ctx

\* container.item
GetAttr(item) ==
  LET r == ContainerGetAttr(implicit_nodes, item)
  IN  /\ built
      /\ err' = r.err
      /\ ret' = r.val
      /\ UNCHANGED <<V, global_delay_data, heap, local_delay_vars, implicit_nodes,
                     tick, updLog, reads, writes, reg, Vhist, nreg, call, built, users>>
      /\ UNCHANGED aux
      /\ UNCHANGED ctx

ContInit == InitWith({NoCall})

ContNext ==
  \/ \E ds_tuple \in ContTuples, ds_dict \in ContKeywords : Construct(ds_tuple, ds_dict)
  \/ \E item \in 1..NumNodes : GetItem(item)
  \/ \E item \in 1..NumNodes : GetAttr(item)

SpecCont == ContInit /\ [][ContNext]_vars

(***************************************************************************)
(* Channels of a CondNeuGroup: check_master and register_implicit_nodes    *)
(***************************************************************************)
\* a Channel object whose class declares master_type
PyChannel(o, master_type) ==
  [kind |-> "node", id |-> o, cls |-> "Channel", master_type |-> master_type]

\* issubclass(a, b) among CondNeuGroup, its subclass HH and a class Other
IsSubclass(a, b) == a = b \/ (a = "HH" /\ b = "CondNeuGroup")

\* isinstance(x, Channel)
IsChannel(x) == x.kind = "node" /\ "cls" \in DOMAIN x /\ x.cls = "Channel"

TypeMismatch == "TypeError: type does not match"

NotSupported == "ValueError: do not support"

\* _check(master, child): the exception raised, or "ok"
Check(master_cls, child) ==
  IF "master_type" \notin DOMAIN child
    THEN "ValueError: child should define master_type"
  ELSE IF ~IsSubclass(master_cls, child.master_type) THEN TypeMismatch
  ELSE "ok"

RECURSIVE CheckEach(_, _)
CheckEach(master_cls, children) ==
  IF children = <<>> THEN "ok"
  ELSE LET e == Check(master_cls, Head(children))
       IN  IF e # "ok" THEN e ELSE CheckEach(master_cls, Tail(children))

\* the values of a dict given as its items
DictValues(items) == [i \in 1..Len(items) |-> items[i][2]]

\* one positional argument of check_master (lines 1027-1036)
CheckChannel(master_cls, channel) ==
  IF IsChannel(channel) THEN Check(master_cls, channel)
  ELSE IF channel.kind = "list" THEN CheckEach(master_cls, channel.items)
  ELSE IF channel.kind = "dict" THEN CheckEach(master_cls, DictValues(channel.items))
  ELSE NotSupported

RECURSIVE CheckChannels(_, _)
CheckChannels(master_cls, channels) ==
  IF channels = <<>> THEN "ok"
  ELSE LET e == CheckChannel(master_cls, Head(channels))
       IN  IF e # "ok" THEN e ELSE CheckChannels(master_cls, Tail(channels))

\* the keyword arguments of check_master (lines 1037-1040)
RECURSIVE CheckNamed(_, _)
CheckNamed(master_cls, named) ==
  IF named = <<>> THEN "ok"
  ELSE IF ~IsChannel(Head(named)) THEN NotSupported
  ELSE LET e == Check(master_cls, Head(named))
       IN  IF e # "ok" THEN e ELSE CheckNamed(master_cls, Tail(named))

\* check_master(master, *channels, **named_channels)
check_master(master_cls, channels, named_channels) ==
  LET e == CheckChannels(master_cls, channels)
  IN  IF e # "ok" THEN e ELSE CheckNamed(master_cls, DictValues(named_channels))

\* Base.register_implicit_nodes: a list element is bound under its own name
RECURSIVE BaseAddSequence(_, _)
BaseAddSequence(r, rest) ==
  IF rest = <<>> \/ r.err # "ok" THEN r
  ELSE IF ~IsDynamicalSystem(Head(rest)) THEN [r EXCEPT !.err = NotDS]
  ELSE BaseAddSequence(CSetItem(r.c, NameOf(Head(rest).id), Head(rest)), Tail(rest))

RECURSIVE BaseAddNodes(_, _)
BaseAddNodes(r, nodes) ==
  IF nodes = <<>> \/ r.err # "ok" THEN r
  ELSE LET n == Head(nodes)
           r1 == CASE n.kind = "node" -> CSetItem(r.c, NameOf(n.id), n)
                   [] n.kind = "list" -> BaseAddSequence(r, n.items)
                   [] n.kind = "dict" -> AddItems(r, n.items)
                   [] OTHER -> [r EXCEPT !.err = NotSupported]
       IN  BaseAddNodes(r1, Tail(nodes))

\* Base.register_implicit_nodes(*nodes, **named_nodes) on the child map c
BaseRegisterImplicitNodes(c, nodes, named_nodes) ==
  AddItems(BaseAddNodes([err |-> "ok", c |-> c], nodes), named_nodes)

\* CondNeuGroup.register_implicit_nodes(*channels, **named_channels)
CondRegisterImplicitNodes(cls, c, channels, named_channels) ==
  LET e == check_master(cls, channels, named_channels)
  IN  IF e # "ok" THEN [err |-> e, c |-> c]
      ELSE BaseRegisterImplicitNodes(c, channels, named_channels)

\* what a CondNeuGroup may be built from and given
GroupClasses == {"CondNeuGroup", "HH"}

GroupSizes == {<<2, 3>>}

Modes == {PyMode("normal"), PyMode("batching")}

BatchSizes == {PyNone, PyInt(2), PyInt(3)}

\* channels for a CondNeuGroup, for its subclass HH and for another class,
\* and a node that is no Channel
ChanItems ==
  {PyChannel(1, "CondNeuGroup"), PyChannel(2, "HH"), PyChannel(3, "Other"), PyNode(1)}

ChanKeywords == {<<>>} \cup {<<<<k, v>>>> : k \in 1..2, v \in ChanItems}

ChanPositional ==
  {<<>>} \cup {<<x>> : x \in ChanItems \cup {PyList(<<a>>) : a \in ChanItems}
                                      \cup {PyInt(0)}}

\* g = cls(size, keep_size=keep_size, mode=mode, **channels): NeuGroup.__init__,
\* Container.__init__(**channels), then the Variables
ConstructGroup(g, cls, size, keep_size, mode, channels) ==
  LET r == ContainerInit(<<>>, channels)
  IN  /\ ~call.made
      /\ call' = [made |-> TRUE, ds_tuple |-> <<>>, ds_dict |-> channels, cls |-> cls]
      /\ built' = (r.err = "ok")
      /\ implicit_nodes' = r.c
      /\ err' = r.err
      /\ ret' = PyNone
      /\ grp' = IF r.err = "ok"
                  THEN [n \in {g} |-> CondNeuGroupInit(cls, size, keep_size, mode)]
                  ELSE grp
      /\ UNCHANGED <<V, global_delay_data, heap, local_delay_vars, tick, updLog,
                     reads, writes, reg, Vhist, nreg, users>>
      /\ UNCHANGED <<resetLog, alive, master, twoEnd, trace>>
      /\ UNCHANGED ctx

\* g.register_implicit_nodes(*channels, **named_channels)
RegisterImplicitNodes(g, channels, named_channels) ==
  /\ built
  /\ g \in DOMAIN grp
  /\ LET r == CondRegisterImplicitNodes(grp[g].cls, implicit_nodes, channels,
                                         named_channels)
     IN  /\ implicit_nodes' = r.c
         /\ err' = r.err
  /\ ret' = PyNone
  /\ UNCHANGED <<V, global_delay_data, heap, local_delay_vars, tick, updLog, reads,
                 writes, reg, Vhist, nreg, call, built, users>>
  /\ UNCHANGED aux
  /\ UNCHANGED ctx

\* g.reset_state(batch_size)
GroupResetState(g, batch_size) ==
  /\ built
  /\ g \in DOMAIN grp
  /\ grp' = [grp EXCEPT ![g] = CondNeuGroupResetState(@, batch_size)]
  /\ err' = "ok"
  /\ ret' = PyNone
  /\ UNCHANGED <<V, global_delay_data, heap, local_delay_vars, implicit_nodes, tick,
                 updLog, reads, writes, reg, Vhist, nreg, call, built, users>>
  /\ UNCHANGED <<resetLog, alive, master, twoEnd, trace>>
  /\ UNCHANGED ctx

\* one CondNeuGroup, built as node 2, its channels and its resets
GroupInit == InitWith({NoCall})

GroupNext ==
  \/ \E cls \in GroupClasses, size \in GroupSizes, keep_size \in BOOLEAN,
        mode \in Modes, channels \in ChanKeywords :
       ConstructGroup(2, cls, size, keep_size, mode, channels)
  \/ \E channels \in ChanPositional, named_channels \in ChanKeywords :
       RegisterImplicitNodes(2, channels, named_channels)
  \/ \E batch_size \in BatchSizes : GroupResetState(2, batch_size)

SpecGroup == GroupInit /\ [][GroupNext]_vars

(***************************************************************************)
(* Synaptic components and TwoEndConn                                      *)
(***************************************************************************)
PyComp(c) == [kind |-> "comp", id |-> c]

\* the SynOutput a TwoEndConn creates for itself when it is given none
FreshOutput == PyComp(0)

CompKind(c) ==
  CASE c % 3 = 1 -> "SynOutput"
    [] c % 3 = 2 -> "SynSTP"
    [] OTHER -> "SynLTP"

\* isinstance(x, SynOutput), isinstance(x, SynSTP), isinstance(x, SynLTP)
IsComp(x, cls) ==
  /\ x.kind = "comp"
  /\ IF x = FreshOutput THEN cls = "SynOutput" ELSE CompKind(x.id) = cls

\* isinstance(master, SynConn)
IsSynConnValue(m) == m.kind = "node" /\ IsSynConn(m.id)

MasterRegistered == "ValueError: master has been registered"

\* variant: a second master replaces the first
RegisterMasterOverwrites(ms, comp, m) ==
  IF ~IsSynConnValue(m) THEN [err |-> "TypeError: master must be SynConn", ms |-> ms]
  ELSE IF comp = FreshOutput THEN [err |-> "ok", ms |-> ms]
  ELSE [err |-> "ok", ms |-> [ms EXCEPT ![comp.id] = m.id]]

\* SynComponent.register_master(master) of component comp on the masters ms;
\* the master of a fresh component is not recorded
register_master(ms, comp, m) ==
  IF ~IsSynConnValue(m) THEN [err |-> "TypeError: master must be SynConn", ms |-> ms]
  ELSE IF comp = FreshOutput THEN [err |-> "ok", ms |-> ms]
  ELSE IF ms[comp.id] # 0 /\ ms[comp.id] # m.id THEN [err |-> MasterRegistered, ms |-> ms]
  ELSE [err |-> "ok", ms |-> [ms EXCEPT ![comp.id] = m.id]]

\* an optional component of TwoEndConn.__init__ (lines 791-804)
AttachOptional(r, o, comp, cls) ==
  IF r.err # "ok" \/ comp.kind = "none" THEN r
  ELSE IF ~IsComp(comp, cls) THEN [r EXCEPT !.err = "TypeError: must be instance of " \o cls]
  ELSE LET m == register_master(r.ms, comp, PyNode(o))
       IN  [r EXCEPT !.err = m.err, !.ms = m.ms]

\* TwoEndConn.__init__(pre, post, conn, output, stp, ltp) of object o on the
\* masters ms: [err, ms, conn]
TwoEndConnInit(ms, o, pre, post, output, stp, ltp) ==
  LET failed(e, m) == [err |-> e, ms |-> m, conn |-> [made |-> FALSE, failed |-> TRUE]]
      out == IF output.kind = "none" THEN FreshOutput ELSE output
  IN  IF ~(pre.kind = "node" /\ IsNeuGroup(pre.id)) \/ ~(post.kind = "node" /\ IsNeuGroup(post.id))
        THEN failed("ModelBuildError: must be an instance of NeuGroup", ms)
      ELSE IF ~IsComp(out, "SynOutput")
        THEN failed("TypeError: must be instance of SynOutput", ms)
      ELSE LET r1 == register_master(ms, out, PyNode(o))
               r2 == AttachOptional([err |-> r1.err, ms |-> r1.ms], o, stp, "SynSTP")
               r3 == AttachOptional(r2, o, ltp, "SynLTP")
           IN  IF r3.err # "ok" THEN failed(r3.err, r3.ms)
               ELSE [err |-> "ok", ms |-> r3.ms,
                     conn |-> [made |-> TRUE, pre |-> pre.id, post |-> post.id,
                               output |-> out, stp |-> stp, ltp |-> ltp, g_max |-> 2]]

\* comp.register_master(m)
RegisterMaster(c, m) ==
  LET r == register_master(master, PyComp(c), m)
  IN  /\ master' = r.ms
      /\ err' = r.err
      /\ ret' = PyNone
      /\ UNCHANGED <<V, global_delay_data, heap, local_delay_vars, implicit_nodes, tick,
                     updLog, reads, writes, reg, Vhist, nreg, call, built, users>>
      /\ UNCHANGED <<resetLog, alive, twoEnd, grp, trace>>
      /\ UNCHANGED ctx

\* o = TwoEndConn(pre, post, One2One, output, stp, ltp)
ConstructTwoEndConn(o, pre, post, output, stp, ltp) ==
  LET r == TwoEndConnInit(master, o, pre, post, output, stp, ltp)
  IN  /\ twoEnd[o] = NoConn
      /\ twoEnd' = [twoEnd EXCEPT ![o] = r.conn]
      /\ master' = r.ms
      /\ err' = r.err
      /\ ret' = PyNone
      /\ UNCHANGED <<V, global_delay_data, heap, local_delay_vars, implicit_nodes, tick,
                     updLog, reads, writes, reg, Vhist, nreg, call, built, users>>
      /\ UNCHANGED <<resetLog, alive, grp, trace>>
      /\ UNCHANGED ctx

\* what register_master and the constructor may be given
MasterChoices == {PyNode(o) : o \in Conns} \cup {PyNode(2), PyNone}

CompChoices == {PyNone} \cup {PyComp(c) : c \in Comps}

CompInit == InitWith({NoCall})

CompNext ==
  \/ \E c \in Comps, m \in MasterChoices : RegisterMaster(c, m)
  \/ \E o \in Conns, pre \in {PyNode(2), PyNode(3)}, output \in CompChoices,
        stp \in CompChoices, ltp \in CompChoices :
       ConstructTwoEndConn(o, pre, PyNode(2), output, stp, ltp)

SpecComp == CompInit /\ [][CompNext]_vars

(***************************************************************************)
(* A Network of two CondNeuGroups and a one-to-one synapse                 *)
(***************************************************************************)
\* the environment adds x to the input of group g between two ticks; the
\* voltage it can lead to is kept between VInit - 1 and VTh + 1
GroupDrive(g, x) ==
  /\ g \in DOMAIN grp
  /\ grp[g].input.val = 0
  /\ grp[g].V.val + x >= VInit - 1
  /\ grp[g].V.val + x <= VTh + 1
  /\ grp' = [grp EXCEPT ![g].input.val = @ + x]
  /\ UNCHANGED <<V, global_delay_data, heap, local_delay_vars, implicit_nodes, tick,
                 updLog, reads, writes, err, ret, reg, Vhist, nreg, call, built, users>>
  /\ UNCHANGED <<resetLog, alive, master, twoEnd, trace>>
  /\ UNCHANGED ctx

\* pre is node 2, post node 3, both unbatched groups of one element
TwoGroups ==
  [n \in {2, 3} |-> CondNeuGroupInit("CondNeuGroup", <<1>>, FALSE, PyMode("normal"))]

SynInit == InitState({BareArgs(<<2, 3, 1>>), BareArgs(<<1, 3, 2>>)}, {TwoGroups})

SynNext ==
  \/ ConstructTwoEndConn(1, PyNode(2), PyNode(3), PyNone, PyNone, PyNone)
  \/ \E x \in {0 - 1, 1} : twoEnd[1].made /\ GroupDrive(2, x)
  \/ twoEnd[1].made /\ NetworkUpdate(SynMaxTick)

SpecSyn == SynInit /\ [][SynNext]_vars

(***************************************************************************)
(* Resets of containers with and without children                          *)
(***************************************************************************)
ResetTuples == {<<>>, <<3, 2, 1>>, <<1, 3, 2>>}

ResetInit == InitWith({BareArgs(t) : t \in ResetTuples})

ResetNext ==
  \/ Step({1}, {PyInt(2)}, {PyNone}, NetMaxTick)
  \/ \E batch_size \in {PyNone, PyInt(2)} : NetworkResetState(batch_size)
  \/ \E batch_size \in {PyNone, PyInt(2)} : DefaultResetState(batch_size)
  \/ \E cls \in BaseClasses : BaseUpdate(cls)

SpecReset == ResetInit /\ [][ResetNext]_vars

(***************************************************************************)
(* Registration with bad arguments, reads of unregistered keys, teardown   *)
(***************************************************************************)
\* a tensor handed back to the caller
PyTensor(v) == [kind |-> "tensor", v |-> v]

\* self.get_delay_data(identifier, delay_step)
ReadDelay(self, identifier, delay_step) ==
  LET r == GetDelayData(global_delay_data, heap, local_delay_vars[self], V,
                        identifier, delay_step)
  IN  /\ err' = r.err
      /\ ret' = IF r.err = "ok" THEN PyTensor(r.val) ELSE PyNone
      /\ UNCHANGED <<V, global_delay_data, heap, local_delay_vars, implicit_nodes, tick,
                     updLog, reads, writes, reg, Vhist, nreg, call, built, users>>
      /\ UNCHANGED aux
      /\ UNCHANGED ctx

\* del self: the node is gone whether or not __del__ raised
Destroy(self) ==
  LET r == DelCall(global_delay_data, local_delay_vars[self])
  IN  /\ self \in alive
      /\ alive' = alive \ {self}
      /\ global_delay_data' = r.g
      /\ local_delay_vars' = [local_delay_vars EXCEPT ![self] = r.l]
      /\ err' = r.err
      /\ ret' = PyNone
      /\ reg' = [k \in Keys |-> IF r.g[k].has THEN reg[k] ELSE NoReg]
      /\ UNCHANGED <<V, heap, implicit_nodes, tick, updLog, reads, writes, Vhist, nreg,
                     call, built, users>>
      /\ UNCHANGED <<resetLog, master, twoEnd, grp, trace>>
      /\ UNCHANGED ctx

\* steps arguments: None, a scalar, a per-element tensor, one of float dtype,
\* one of the wrong length, and a str
RegSteps ==
  {PyNone, PyInt(1), PyArray("int32", HeterSteps), PyArray("float32", HeterSteps),
   PyArray("int32", <<1>>), PyStr}

\* what a reader asks for: the live value, a lag, a lag per element
ReadSteps == {PyNone, PyInt(1), PyArray("int32", [e \in 1..VecLen |-> 1])}

\* delay targets: the Variable of the key, and 0, a plain array
RegTargets(identifier) == {TargetOf(identifier), 0}

RegInit == InitWith({BareArgs(<<2, 1>>)})

RegNext ==
  \/ \E self \in alive, identifier \in Keys, delay_step \in RegSteps :
       \E delay_target \in RegTargets(identifier) :
         RegisterDelay(self, identifier, delay_step, delay_target, PyNone)
  \/ \E self \in alive, identifier \in Keys, delay_step \in ReadSteps :
       ReadDelay(self, identifier, delay_step)
  \/ \E self \in Nodes : Destroy(self)

SpecReg == RegInit /\ [][RegNext]_vars

(***************************************************************************)
(* Update passes of a Container and a Sequential, and positional access    *)
(***************************************************************************)
\* the record an update pass starts from, for the input x
PassState(x) ==
  [v |-> V, h |-> heap, log |-> <<>>, reads |-> {}, writes |-> [k \in Keys |-> 0],
   err |-> "ok", i |-> tick + 1, grp |-> grp, shared |-> Shared(tick + 1),
   seen |-> <<>>, x |-> x]

\* the effect of an update pass that refreshes no delay buffer
PassEffect(st) ==
  /\ V' = st.v
  /\ updLog' = st.log
  /\ reads' = st.reads
  /\ writes' = st.writes
  /\ err' = st.err
  /\ Vhist' = Append(Vhist, st.v)
  /\ tdi' = st.shared
  /\ seen' = st.seen
  /\ tick' = tick + 1
  /\ reg' = [k \in Keys |->
               IF global_delay_data[k].delay = 0 THEN reg[k]
               ELSE Aged(reg[k], 0, heap[global_delay_data[k].delay].num_delay_step - 1)]
  /\ UNCHANGED <<global_delay_data, heap, local_delay_vars, implicit_nodes, nreg, call,
                 built, users>>
  /\ grp' = st.grp
  /\ UNCHANGED <<resetLog, alive, master, twoEnd, trace, share, chanLog, parent>>

\* c.update(tdi) on a Container that does not override update
ContainerUpdate(maxTick) ==
  /\ tick < maxTick
  /\ ret' = PyNone
  /\ PassEffect(ContainerUpdateCall(ChildNodes(implicit_nodes), PassState(0)))

\* y = seq.update(sha, x)
SequentialUpdate(x, maxTick) ==
  /\ tick < maxTick
  /\ LET st == SequentialUpdateCall(CValues(implicit_nodes), PassState(x), x)
     IN  /\ ret' = IF st.err = "ok" THEN PyInt(st.x) ELSE PyNone
         /\ PassEffect(st)

\* seq[key]
SequentialItem(key) ==
  LET r == SequentialGetItem(implicit_nodes, key)
  IN  /\ built
      /\ err' = r.err
      /\ ret' = r.val
      /\ UNCHANGED <<V, global_delay_data, heap, local_delay_vars, implicit_nodes,
                     tick, updLog, reads, writes, reg, Vhist, nreg, call, built, users>>
      /\ UNCHANGED aux
      /\ UNCHANGED ctx

\* names, slices, indices and lists of indices, and a key of no supported type
SeqKeys ==
  {PyName(k) : k \in 1..(NumNodes + 1)}
    \cup {PySlice(a, b) : a \in 0..NumNodes, b \in 0..NumNodes}
    \cup {PyInt(i) : i \in 0..NumNodes}
    \cup {PyList(<<>>)}
    \cup {PyList(<<PyInt(i)>>) : i \in 0..(NumNodes - 1)}
    \cup {PyList(<<PyInt(i), PyInt(j)>>) : i \in 0..1, j \in 0..1}
    \cup {PyNone}

SeqInit == InitWith({BareArgs(t) : t \in ChildTuples \cup {<<>>}})

SeqNext ==
  \/ \E key \in SeqKeys : SequentialItem(key)
  \/ \E x \in {0, 1} : SequentialUpdate(x, NetMaxTick)

SpecSeq == SeqInit /\ [][SeqNext]_vars

(***************************************************************************)
(* CondNeuGroup.update with channels, and the update passes together       *)
(***************************************************************************)
\* self.nodes(level=1, include_self=False).subset(Channel).unique().values()
Channels(c) == Unique(SelectSeq(CValues(c), IsChannel))

\* the call self.integral(V, t, dt), as a channel's current sees it
IntegralEvent(g, shared) ==
  [op |-> "integral", V |-> g.V.val, t |-> shared.t, dt |-> shared.dt]

\* the call node.update(tdi, V)
ChannelEvent(node, shared, v) == [op |-> "update", node |-> node, tdi |-> shared, V |-> v]

\* variant: the new voltage is committed before the channels are updated
CondNeuGroupUpdateCommitsFirst(g, c, shared) ==
  LET new == CondNeuGroupUpdate(g)
      channels == Channels(c)
  IN  [g |-> new,
       log |-> <<IntegralEvent(g, shared)>>
                 \o [j \in 1..Len(channels) |->
                       ChannelEvent(channels[j], shared, new.V.val)]]

\* CondNeuGroup.update(tdi) (lines 968-975) of a group g whose children are
\* c: the integration, then node.update(tdi, self.V.value) for every channel
\* while self.V still holds the old voltage, then spike, input and V
CondNeuGroupUpdateCall(g, c, shared) ==
  LET channels == Channels(c)
  IN  [g |-> CondNeuGroupUpdate(g),
       log |-> <<IntegralEvent(g, shared)>>
                 \o [j \in 1..Len(channels) |->
                       ChannelEvent(channels[j], shared, g.V.val)]]

\* g.update(tdi)
GroupUpdate(g, maxTick) ==
  /\ built
  /\ g \in DOMAIN grp
  /\ tick < maxTick
  /\ LET r == CondNeuGroupUpdateCall(grp[g], implicit_nodes, Shared(tick + 1))
     IN  /\ grp' = [grp EXCEPT ![g] = r.g]
         /\ chanLog' = r.log
         /\ seen' = [j \in 1..(Len(r.log) - 1) |-> r.log[j + 1].tdi]
         /\ tdi' = Shared(tick + 1)
  /\ tick' = tick + 1
  /\ err' = "ok"
  /\ ret' = PyNone
  /\ UNCHANGED <<V, global_delay_data, heap, local_delay_vars, implicit_nodes, updLog,
                 reads, writes, reg, Vhist, nreg, call, built, users>>
  /\ UNCHANGED <<resetLog, alive, master, twoEnd, trace, share, parent>>

\* a CondNeuGroup built with no channel, one channel, two channels, one
\* channel under two names, and a channel beside a child that is no Channel
GroupArgs ==
  {[made |-> TRUE, ds_tuple |-> <<>>, ds_dict |-> d, cls |-> "CondNeuGroup"] :
     d \in {<<>>,
            <<<<1, PyChannel(1, "CondNeuGroup")>>>>,
            <<<<1, PyChannel(1, "CondNeuGroup")>>, <<2, PyChannel(3, "CondNeuGroup")>>>>,
            <<<<1, PyChannel(3, "CondNeuGroup")>>, <<2, PyChannel(3, "CondNeuGroup")>>>>,
            <<<<1, PyNode(1)>>, <<2, PyChannel(1, "CondNeuGroup")>>>>}}

\* the group is node 2, unbatched, of one element
OneGroup ==
  [n \in {2} |-> CondNeuGroupInit("CondNeuGroup", <<1>>, FALSE, PyMode("normal"))]

\* either a container of bare nodes or a CondNeuGroup with its channels
PassInit ==
  \/ InitWith({BareArgs(t) : t \in {<<1, 2>>, <<3, 1, 2>>}})
  \/ InitState(GroupArgs, {OneGroup})

PassNext ==
  \/ DOMAIN grp = {} /\ NetworkUpdate(NetMaxTick)
  \/ DOMAIN grp = {} /\ ContainerUpdate(NetMaxTick)
  \/ \E x \in {0, 1} : DOMAIN grp = {} /\ SequentialUpdate(x, NetMaxTick)
  \/ \E x \in {0 - 1, 1} : tick < MaxTick /\ GroupDrive(2, x)
  \/ GroupUpdate(2, MaxTick)

SpecPass == PassInit /\ [][PassNext]_vars

(***************************************************************************)
(* Composites whose children include a CondNeuGroup and a node bound under *)
(* two names                                                               *)
(***************************************************************************)
\* Network(*nodes, **{name: node}): the nodes of t, and one of them, or node
\* NumNodes, bound once more under a name of its own
NamedArgs ==
  {[made |-> TRUE, ds_tuple |-> [i \in 1..Len(t) |-> PyNode(t[i])], ds_dict |-> d] :
     t \in ChildTuples,
     d \in {<<>>} \cup {<<<<NumNodes + 1, PyNode(n)>>>> : n \in Nodes}}

\* node 3 is a CondNeuGroup, or no child is one
MaybeGroup ==
  {<<>>, [n \in {3} |-> CondNeuGroupInit("CondNeuGroup", <<1>>, FALSE, PyMode("normal"))]}

OnceInit == InitState(NamedArgs, MaybeGroup)

OnceNext ==
  \/ NetworkUpdate(NetMaxTick)
  \/ ContainerUpdate(NetMaxTick)

SpecOnce == OnceInit /\ [][OnceNext]_vars

(***************************************************************************)
(* A root Network over a tree of nodes that register delays                *)
(***************************************************************************)
\* node 3 is the root Network itself, over the children 2 and 1
RootIsNode == [n \in Nodes |-> IF n = 3 THEN 3 ELSE 0]

\* node m is nested below the child c
NestedIn(m, c) == [n \in Nodes |-> IF n = m THEN c ELSE 0]

\* the trees: all nodes immediate children; the root a registrant; node 2
\* below the generic Container 3; node 3, a channel, below the CondNeuGroup 2
TreeInit ==
  \/ InitTree({BareArgs(<<2, 1, 3>>)}, {<<>>}, {Flat})
  \/ InitTree({BareArgs(<<2, 1>>)}, {<<>>}, {RootIsNode})
  \/ InitTree({BareArgs(<<3, 1>>)}, {<<>>}, {NestedIn(2, 3)})
  \/ InitTree({BareArgs(<<2, 1>>)},
              {[n \in {2} |-> CondNeuGroupInit("CondNeuGroup", <<1>>, FALSE,
                                               PyMode("normal"))]},
              {NestedIn(3, 2)})

TreeNext == Step(Keys, {PyInt(1)}, {PyNone}, NetMaxTick)

SpecTree == TreeInit /\ [][TreeNext]_vars

(***************************************************************************)
(* SynConn.__init__ and TwoEndConn.init_weights                            *)
(***************************************************************************)
\* a matrix of the given shape with nnz entries set
PyMatrix(shape, nnz) == [kind |-> "array", shape |-> shape, nnz |-> nnz]

\* a dict with the given keys whose index arrays hold nnz entries
PyIndexDict(keys, nnz) == [kind |-> "dict", keys |-> keys, nnz |-> nnz]

\* a TwoEndConnector of class cls that makes nnz connections
PyConnector(cls, nnz) == [kind |-> "connector", cls |-> cls, nnz |-> nnz]

\* pre.num, on the groups gs
NumOf(gs, n) == size2num(gs[n].size)

BuildError == "ModelBuildError"

\* variant: a matrix of any shape is accepted
SynConnInitAnyShape(gs, pre, post, conn) ==
  LET failed == [err |-> BuildError, made |-> FALSE]
      done(c) == [err |-> "ok", made |-> TRUE, pre |-> pre.id, post |-> post.id, conn |-> c]
  IN  IF ~(pre.kind = "node" /\ IsNeuGroup(pre.id)) THEN failed
      ELSE IF ~(post.kind = "node" /\ IsNeuGroup(post.id)) THEN failed
      ELSE CASE conn.kind = "connector" -> done(conn)
             [] conn.kind = "array" -> done(PyConnector("MatConn", conn.nnz))
             [] conn.kind = "dict" ->
                  IF ~({"i", "j"} \subseteq conn.keys) THEN failed
                  ELSE done(PyConnector("IJConn", conn.nnz))
             [] conn.kind = "str" -> done(conn)
             [] conn.kind = "none" -> done(PyNone)
             [] OTHER -> failed

\* SynConn.__init__(pre, post, conn) on the groups gs (lines 618-658):
\* [err, made, pre, post, conn]
SynConnInit(gs, pre, post, conn) ==
  LET failed == [err |-> BuildError, made |-> FALSE]
      done(c) == [err |-> "ok", made |-> TRUE, pre |-> pre.id, post |-> post.id, conn |-> c]
  IN  IF ~(pre.kind = "node" /\ IsNeuGroup(pre.id)) THEN failed
      ELSE IF ~(post.kind = "node" /\ IsNeuGroup(post.id)) THEN failed
      ELSE CASE conn.kind = "connector" -> done(conn)
             [] conn.kind = "array" ->
                  IF <<NumOf(gs, pre.id), NumOf(gs, post.id)>> # conn.shape THEN failed
                  ELSE done(PyConnector("MatConn", conn.nnz))
             [] conn.kind = "dict" ->
                  IF ~({"i", "j"} \subseteq conn.keys) THEN failed
                  ELSE done(PyConnector("IJConn", conn.nnz))
             [] conn.kind = "str" -> done(conn)
             [] conn.kind = "none" -> done(PyNone)
             [] OTHER -> failed

\* conn.require(...) of a connector from pre_num units: the lengths of the
\* arrays it gives.  'pre2post' is the compressed form, the post indices of
\* the connections and one row pointer per pre unit and one more
Require(conn, pre_num, structure) ==
  CASE structure = "pre2post" ->
         [kind |-> "pre2post", shapes |-> <<<<conn.nnz>>, <<pre_num + 1>>>>]
    [] structure = "ij" ->
         [kind |-> "post_ids, pre_ids", shapes |-> <<<<conn.nnz>>, <<conn.nnz>>>>]

\* conn.require('conn_mat')
RequireMat(pre_num, post_num) ==
  [kind |-> "conn_mat", shapes |-> <<<<pre_num, post_num>>>>]

\* parameter(weight, shape, allow_none=False) of an initializer, and the
\* TrainVar of line 844
Weight(shape, mode) == [kind |-> "weight", shape |-> shape,
                        trainable |-> (mode.name = "training")]

NoAttribute == "AttributeError: no attribute require"

\* TwoEndConn.init_weights(weight, comp_method, sparse_data) of the
\* connection c between groups of gs (lines 806-846), for a weight given as
\* an initializer: [err, val]
InitWeights(c, gs, comp_method, sparse_data) ==
  LET failed(e) == [err |-> e, val |-> PyNone]
      done(shape, mask) ==
        [err |-> "ok", val |-> [kind |-> "tuple", weight |-> Weight(shape, c.mode),
                                conn_mask |-> mask]]
      pre_num == NumOf(gs, c.pre)
      post_num == NumOf(gs, c.post)
  IN  IF comp_method \notin {"sparse", "dense"} THEN failed("ValueError: comp_method")
      ELSE IF sparse_data \notin {"csr", "ij"} THEN failed("ValueError: sparse_data")
      ELSE IF c.conn.kind = "none" THEN failed("ValueError: must provide conn")
      ELSE IF c.conn.kind = "str" THEN failed(NoAttribute)
      ELSE IF c.conn.cls = "One2One" THEN done(<<pre_num>>, PyNone)
      ELSE IF c.conn.cls = "All2All" THEN done(<<pre_num, post_num>>, PyNone)
      ELSE IF comp_method = "sparse"
        THEN LET conn_mask == Require(c.conn, pre_num,
                                      IF sparse_data = "csr" THEN "pre2post" ELSE "ij")
             IN  done(conn_mask.shapes[2], conn_mask)
      ELSE done(<<pre_num, post_num>>, RequireMat(pre_num, post_num))

\* o = TwoEndConn(pre, post, conn, mode=mode): SynConn.__init__, then the
\* components of TwoEndConn.__init__ with none given
ConstructConn(o, pre, post, conn, mode) ==
  LET r == SynConnInit(grp, pre, post, conn)
      t == TwoEndConnInit(master, o, pre, post, PyNone, PyNone, PyNone)
  IN  /\ twoEnd[o] = NoConn
      /\ twoEnd' = [twoEnd EXCEPT ![o] =
                      IF r.err = "ok" /\ t.err = "ok"
                        THEN [made |-> TRUE, pre |-> r.pre, post |-> r.post,
                              conn |-> r.conn, mode |-> mode, output |-> t.conn.output,
                              stp |-> t.conn.stp, ltp |-> t.conn.ltp,
                              g_max |-> t.conn.g_max]
                        ELSE NoConn]
      /\ master' = IF r.err = "ok" THEN t.ms ELSE master
      /\ err' = IF r.err = "ok" THEN t.err ELSE r.err
      /\ ret' = PyNone
      /\ UNCHANGED <<V, global_delay_data, heap, local_delay_vars, implicit_nodes, tick,
                     updLog, reads, writes, reg, Vhist, nreg, call, built, users>>
      /\ UNCHANGED <<resetLog, alive, grp, trace>>
      /\ UNCHANGED ctx

\* o.init_weights(weight, comp_method, sparse_data)
CallInitWeights(o, comp_method, sparse_data) ==
  /\ twoEnd[o].made
  /\ LET r == InitWeights(twoEnd[o], grp, comp_method, sparse_data)
     IN  /\ err' = r.err
         /\ ret' = r.val
  /\ UNCHANGED <<V, global_delay_data, heap, local_delay_vars, implicit_nodes, tick,
                 updLog, reads, writes, reg, Vhist, nreg, call, built, users>>
  /\ UNCHANGED aux
  /\ UNCHANGED ctx

\* pre and post: the groups 2 (of two units) and 3 (of one), a synapse, an int
ConnEnds == {PyNode(2), PyNode(3), PyNode(1), PyInt(0)}

\* the connectivity given: connectors, matrices, dicts, a name, None, an int
ConnGiven ==
  {PyConnector("One2One", 0), PyConnector("All2All", 0), PyConnector("FixedProb", 1),
   PyMatrix(<<2, 1>>, 1), PyMatrix(<<2, 2>>, 3), PyMatrix(<<1, 2>>, 2),
   PyIndexDict({"i", "j"}, 1), PyIndexDict({"i", "j"}, 3), PyIndexDict({"i"}, 1),
   PyIndexDict({"j", "k"}, 1), PyStr, PyNone, PyInt(0)}

ConnModes == {PyMode("normal"), PyMode("batching"), PyMode("training")}

CompMethods == {"sparse", "dense", "jit"}

SparseFormats == {"csr", "ij", "coo"}

SizedGroups ==
  [n \in {2, 3} |->
     CondNeuGroupInit("CondNeuGroup", <<4 - n>>, FALSE, PyMode("normal"))]

ConnInit == InitState({NoCall}, {SizedGroups})

ConnNext ==
  \/ \E pre \in ConnEnds, post \in ConnEnds, conn \in ConnGiven, mode \in ConnModes :
       ConstructConn(1, pre, post, conn, mode)
  \/ \E comp_method \in CompMethods, sparse_data \in SparseFormats :
       CallInitWeights(1, comp_method, sparse_data)

SpecConn == ConnInit /\ [][ConnNext]_vars

(***************************************************************************)
(* _ShareContext (brainpy._src.dyn.context), on its _arguments a           *)
(***************************************************************************)
\* a key given as an argument
PyKey(k) == [kind |-> "key", k |-> k]

\* the dt property (lines 28-33)
ShareDt(a) == IF a["dt"].has THEN a["dt"].v ELSE DefaultDt

\* set_dt(dt), also the dt setter (lines 35-40)
ShareSetDt(a, dt) == [a EXCEPT !["dt"] = Saved(dt)]

NotShared == "KeyError: cannot found shared data"

\* variant: dt is looked up like every other key
ShareLoadPlain(a, key, value) ==
  IF a[key].has THEN [err |-> "ok", val |-> PyInt(a[key].v)]
  ELSE IF value.kind = "none" THEN [err |-> NotShared, val |-> PyNone]
  ELSE [err |-> "ok", val |-> value]

\* load(key, value): [err, val]
ShareLoad(a, key, value) ==
  IF key = "dt" THEN [err |-> "ok", val |-> PyInt(ShareDt(a))]
  ELSE IF a[key].has THEN [err |-> "ok", val |-> PyInt(a[key].v)]
  ELSE IF value.kind = "none" THEN [err |-> NotShared, val |-> PyNone]
  ELSE [err |-> "ok", val |-> value]

\* the loop of lines 61-64 from the loop variable i on (i = 0, 2, 4, ...):
\* it reads args[i * 2] and args[i * 2 + 1], counted from 0
RECURSIVE SavePositional(_, _, _)
SavePositional(a, args, i) ==
  IF i >= Len(args) THEN [err |-> "ok", a |-> a]
  ELSE IF i * 2 + 1 >= Len(args) THEN [err |-> "IndexError", a |-> a]
  ELSE SavePositional([a EXCEPT ![args[i * 2 + 1].k] = Saved(args[i * 2 + 2].n)],
                      args, i + 2)

\* the loop of lines 65-66 over the keyword arguments
RECURSIVE SaveKeywords(_, _)
SaveKeywords(a, kwargs) ==
  IF kwargs = <<>> THEN a
  ELSE SaveKeywords([a EXCEPT ![Head(kwargs)[1]] = Saved(Head(kwargs)[2])], Tail(kwargs))

\* save(*args, **kwargs): [err, a]
ShareSave(a, args, kwargs) ==
  IF Len(args) % 2 # 0 THEN [err |-> "AssertionError", a |-> a]
  ELSE LET r == SavePositional(a, args, 0)
       IN  IF r.err # "ok" THEN r
           ELSE [err |-> "ok", a |-> SaveKeywords(r.a, kwargs)]

\* get_shargs(): a copy of the saved keys and values
ShareGetShargs(a) == [k \in {x \in ShareKeys : a[x].has} |-> a[k].v]

\* variant: the named keys are ignored and everything is cleared
ShareClearEverything(a, args) ==
  [err |-> "ok", a |-> [k \in ShareKeys |-> NotSaved]]

\* clear_shargs(*args): [err, a]
RECURSIVE ShareClearShargs(_, _)
ShareClearShargs(a, args) ==
  IF args = <<>> THEN [err |-> "ok", a |-> a]
  ELSE IF ~a[Head(args)].has THEN [err |-> "KeyError", a |-> a]
  ELSE ShareClearShargs([a EXCEPT ![Head(args)] = NotSaved], Tail(args))

\* clear(), and clear_shargs() without arguments
ShareClear(a) == [k \in ShareKeys |-> NotSaved]

\* the effect of a call on the shared context
ShareEffect(a, e, r) ==
  /\ share' = a
  /\ err' = e
  /\ ret' = r
  /\ UNCHANGED <<V, global_delay_data, heap, local_delay_vars, implicit_nodes, tick,
                 updLog, reads, writes, reg, Vhist, nreg, call, built, users>>
  /\ UNCHANGED aux
  /\ UNCHANGED <<tdi, seen, chanLog, parent>>

\* share.set_dt(dt)
CtxSetDt(dt) == ShareEffect(ShareSetDt(share, dt), "ok", PyNone)

\* share.dt = dt
CtxDtSetter(dt) == ShareEffect(ShareSetDt(share, dt), "ok", PyNone)

\* share.dt
CtxDt == ShareEffect(share, "ok", PyInt(ShareDt(share)))

\* share.load(key, value)
CtxLoad(key, value) ==
  LET r == ShareLoad(share, key, value)
  IN  ShareEffect(share, r.err, r.val)

\* share.save(*args, **kwargs)
CtxSave(args, kwargs) ==
  LET r == ShareSave(share, args, kwargs)
  IN  ShareEffect(r.a, r.err, PyNone)

\* share.get_shargs()
CtxGetShargs == ShareEffect(share, "ok", [kind |-> "dict", d |-> ShareGetShargs(share)])

\* share.clear_shargs(*args)
CtxClearShargs(args) ==
  LET r == IF Len(args) > 0 THEN ShareClearShargs(share, args)
           ELSE [err |-> "ok", a |-> ShareClear(share)]
  IN  ShareEffect(r.a, r.err, PyNone)

\* share.clear()
CtxClear == ShareEffect(ShareClear(share), "ok", PyNone)

\* the values saved, the positional and keyword arguments of save, and the
\* arguments of clear_shargs
ShareVals == {2, 3}

SavePairs == {<<PyKey(k), PyInt(v)>> : k \in {"dt", "t"}, v \in ShareVals}

SaveArgs ==
  {<<>>, <<PyKey("t")>>} \cup SavePairs
    \cup {<<PyKey("t"), PyInt(2), PyKey("i"), PyInt(3)>>,
          <<PyKey("dt"), PyInt(3), PyKey("x"), PyInt(2)>>}

SaveKwargs ==
  {<<>>} \cup {<<<<k, v>>>> : k \in {"dt", "x"}, v \in ShareVals}
         \cup {<<<<"i", 2>>, <<"dt", 3>>>>}

ClearArgs ==
  {<<>>} \cup {<<k>> : k \in ShareKeys}
         \cup {<<j, k>> : j \in {"t", "dt"}, k \in {"x", "i"}} \cup {<<"x", "x">>}

CtxInit == InitWith({NoCall})

CtxNext ==
  \/ \E dt \in ShareVals : CtxSetDt(dt)
  \/ \E dt \in ShareVals : CtxDtSetter(dt)
  \/ CtxDt
  \/ \E key \in ShareKeys, value \in {PyNone, PyInt(0)} : CtxLoad(key, value)
  \/ \E args \in SaveArgs, kwargs \in SaveKwargs : CtxSave(args, kwargs)
  \/ CtxGetShargs
  \/ \E args \in ClearArgs : CtxClearShargs(args)
  \/ CtxClear

SpecCtx == CtxInit /\ [][CtxNext]_vars

(***************************************************************************)
(* Properties.                                                             *)
(***************************************************************************)
HasBuffer(k) == global_delay_data[k].has /\ global_delay_data[k].delay # 0

BufferOf(k) == heap[global_delay_data[k].delay]

Capacity(k) == BufferOf(k).num_delay_step - 1

\* self.get_delay_data(k, delay_step) in the current state
Read(self, k, delay_step) ==
  GetDelayData(global_delay_data, heap, local_delay_vars[self], V, k, delay_step)

\* the tick in which a value was assigned (0: never assigned, or a fill value)
TickOf(x) == IF x <= 0 THEN 0 ELSE (x % 100) \div 10

\* the state is the one a Network.update call has just left
AfterUpdate == updLog # <<>>

\* the state is the one a register_delay call has just left
AfterRegister == nreg > 0 /\ updLog = <<>>

Rank(n) == IF IsSynConn(n) THEN 1 ELSE IF IsNeuGroup(n) THEN 2 ELSE 3

\* C1: in one Network.update every SynConn child is updated before any
\* NeuGroup child and every NeuGroup child before any other child, whatever
\* the order the children were registered in.
C1_UpdateOrder ==
  \A i, j \in 1..Len(updLog) : i < j => Rank(updLog[i]) <= Rank(updLog[j])

\* a Network built as (other, NeuGroup, SynConn) has updated all three
C1_Witness ==
  /\ call.ds_tuple = <<PyNode(3), PyNode(2), PyNode(1)>>
  /\ updLog = <<1, 2, 3>>

ChildOwners(k) ==
  {i \in 1..Len(ChildNodes(implicit_nodes)) :
     CHas(local_delay_vars[ChildNodes(implicit_nodes)[i]], k)}

\* C3: one Network.update writes each buffer of the registry at most once,
\* and exactly once when an immediate child owns its key.
C3_WrittenOnce ==
  AfterUpdate =>
    \A k \in Keys :
      HasBuffer(k) =>
        /\ writes[k] <= 1
        /\ ChildOwners(k) # {} => writes[k] = 1

\* what a lag-d read of key k shows when the buffer was (re)initialised
\* reg[k].age ticks ago and refreshed once in every tick since
Expected(k, d) ==
  IF d <= reg[k].age
    THEN Vhist[tick + 1 - d][global_delay_data[k].target]
    ELSE reg[k].fill

\* C4: N ticks after register_delay(key, s, T, init), each refreshing the
\* buffer once, a read at lag d <= s returns the value T held d ticks ago
\* when N >= d and the initial fill value when N < d.
C4_DelayedRead ==
  \A k \in Keys :
    HasBuffer(k) /\ reg[k].made /\ reg[k].good =>
      \A self \in Nodes, d \in 0..Capacity(k) :
        Read(self, k, PyInt(d)) = [err |-> "ok", val |-> Expected(k, d)]

\* three ticks after a registration with steps=3, lag 3 reads the value the
\* target held at the registration and lag 2 the value of the first tick
C4_Witness ==
  /\ HasBuffer(1) /\ reg[1].made /\ reg[1].good
  /\ Capacity(1) = 3 /\ reg[1].age = 3 /\ tick = 4
  /\ Read(3, 1, PyInt(3)).val = Val(TargetOf(1), 1)
  /\ Read(3, 1, PyInt(2)).val = Val(TargetOf(1), 2)

\* C5: once a key is registered, get_delay_data(key, None) returns the live
\* value of its target; a registration with steps None returns None and
\* leaves the key without a buffer.
C5_PassThrough ==
  /\ \A k \in Keys, self \in Nodes :
       global_delay_data[k].has =>
         Read(self, k, PyNone) = [err |-> "ok", val |-> V[TargetOf(k)]]
  /\ AfterRegister /\ err = "ok" /\ ret = PyNone =>
       \E k \in Keys : global_delay_data[k] = Entry(0, TargetOf(k))

\* a key registered with steps None only, read after two ticks
C5_Witness ==
  /\ global_delay_data[1] = Entry(0, TargetOf(1))
  /\ heap = <<>>
  /\ tick = 2
  /\ Read(1, 1, PyNone).val = Val(TargetOf(1), 2)

\* C6: across register_delay calls the capacity of a key's buffer never
\* decreases, a buffer is never replaced by "no buffer", and a request within
\* the capacity leaves the buffer unchanged.
C6_CapacityMonotone ==
  [][\A k \in Keys :
       HasBuffer(k) =>
         /\ HasBuffer(k)'
         /\ Capacity(k)' >= Capacity(k)
         /\ nreg' # nreg /\ Capacity(k)' = Capacity(k) => BufferOf(k)' = BufferOf(k)]_vars

\* a successful register_delay(key, 5, ...) on a key of capacity 3 that has
\* been refreshed for at least one tick
Grows(k) ==
  /\ HasBuffer(k) /\ Capacity(k) = 3 /\ reg[k].made /\ reg[k].age >= 1
  /\ nreg' = nreg + 1 /\ err' = "ok" /\ ret' = PyInt(5)

\* C7 as stated: growing a key from steps=3 to steps=5 preserves the history
\* (every lag d <= 3 reads as before) and makes lags up to 5 readable.
C7_GrowthKeepsHistory ==
  [][\A k \in Keys :
       Grows(k) =>
         /\ Capacity(k)' = 5
         /\ \A self \in Nodes, d \in 0..3 :
              Read(self, k, PyInt(d))' = Read(self, k, PyInt(d))]_vars

\* C7 as amended: the growth makes lags up to 5 readable and re-initialises
\* the buffer: lag 0 reads the target's current value, every lag 1..5 the
\* initial fill value of the growing call.
C7_GrowthReinitialises ==
  [][\A k \in Keys :
       Grows(k) =>
         /\ Capacity(k)' = 5
         /\ \A self \in Nodes :
              /\ Read(self, k, PyInt(0))' = [err |-> "ok", val |-> V[TargetOf(k)]]
              /\ \A d \in 1..5 :
                   Read(self, k, PyInt(d))' = [err |-> "ok", val |-> reg'[k].fill]]_vars

\* a key of capacity 5, grown in the second tick or later by a call that
\* gave the fill -1
C7_Witness ==
  /\ AfterRegister /\ ret = PyInt(5) /\ err = "ok"
  /\ HasBuffer(1) /\ Capacity(1) = 5 /\ Cardinality(users[1]) = 2
  /\ tick >= 2 /\ reg[1].age = 0 /\ reg[1].fill = Broadcast(-1)
  /\ Len(heap) = 1

RECURSIVE ItemBindings(_)
ItemBindings(items) ==
  IF items = <<>> THEN {}
  ELSE (IF IsDynamicalSystem(Head(items)[2]) THEN {Head(items)} ELSE {})
         \cup ItemBindings(Tail(items))

ModuleBindings(module) ==
  CASE module.kind = "node" -> {<<NameOf(module.id), module>>}
    [] module.kind = "dict" -> ItemBindings(module.items)
    [] OTHER -> {}

CallBindings ==
  UNION {ModuleBindings(call.ds_tuple[i]) : i \in 1..Len(call.ds_tuple)}
    \cup ItemBindings(call.ds_dict)

DuplicateName ==
  \E p \in CallBindings, q \in CallBindings : p[1] = q[1] /\ p[2] # q[2]

\* every argument is a node, or a list or dict of nodes
ValidModule(module) ==
  CASE module.kind = "node" -> TRUE
    [] module.kind = "list" ->
         \A i \in 1..Len(module.items) : IsDynamicalSystem(module.items[i])
    [] module.kind = "dict" ->
         \A i \in 1..Len(module.items) : IsDynamicalSystem(module.items[i][2])
    [] OTHER -> FALSE

ValidCall ==
  /\ \A i \in 1..Len(call.ds_tuple) : ValidModule(call.ds_tuple[i])
  /\ \A i \in 1..Len(call.ds_dict) : IsDynamicalSystem(call.ds_dict[i][2])

\* C9: a constructor call that would register two distinct nodes under one
\* name (bare nodes, dict entries, keyword entries) raises, with the
\* duplicate-name error when its arguments are otherwise valid.
C9_DuplicateRejected ==
  call.made /\ DuplicateName =>
    /\ ~built
    /\ err # "ok"
    /\ ValidCall => err = "ValueError: name conflicts"

\* the call Container(node1, twin-of-node1)
C9_Witness ==
  /\ call.made
  /\ call.ds_tuple = <<PyNode(1), PyNode(NumNodes + 1)>>
  /\ call.ds_dict = <<>>
  /\ ~built
  /\ err = "ValueError: name conflicts"

\* the nodes given in lists
ListElements ==
  UNION {IF call.ds_tuple[i].kind = "list"
           THEN {call.ds_tuple[i].items[j] : j \in 1..Len(call.ds_tuple[i].items)}
           ELSE {} : i \in 1..Len(call.ds_tuple)}

\* C10: a constructor call that returns leaves a child map whose values are
\* all nodes, in which every bare node, list element, dict entry and keyword
\* entry is found under its name, by item and by attribute; a call with an
\* argument that is not a node or a list/dict of nodes raises.
C10_ChildMap ==
  call.made =>
    /\ ~ValidCall => ~built
    /\ built =>
         /\ \A i \in 1..Len(implicit_nodes) : IsDynamicalSystem(implicit_nodes[i][2])
         /\ \A p \in CallBindings :
              /\ ContainerGetItem(implicit_nodes, p[1]).val = p[2]
              /\ ContainerGetAttr(implicit_nodes, p[1]).val = p[2]
         /\ \A m \in ListElements :
              /\ ContainerGetItem(implicit_nodes, NameOf(m.id)).val = m
              /\ ContainerGetAttr(implicit_nodes, NameOf(m.id)).val = m

\* every channel among the arguments is a Channel
RECURSIVE Flatten(_)
Flatten(channels) ==
  IF channels = <<>> THEN <<>>
  ELSE (IF Head(channels).kind = "list" THEN Head(channels).items
        ELSE <<Head(channels)>>) \o Flatten(Tail(channels))

\* the channels of a call with the names they are attached under
Attached(channels, named_channels) ==
  {<<IF x.kind = "node" THEN NameOf(x.id) ELSE 0, x>> :
     x \in {Flatten(channels)[i] : i \in 1..Len(Flatten(channels))}}
    \cup {named_channels[i] : i \in 1..Len(named_channels)}

AllChannels(att) == \A p \in att : IsChannel(p[2])

Mismatch(cls, att) == \E p \in att : ~IsSubclass(cls, p[2].master_type)

\* the channels are children under their names
Reachable(c, att) == \A p \in att : ContainerGetItem(c, p[1]) = [err |-> "ok", val |-> p[2]]

\* C11, the constructor: keyword channels with a mismatch make the
\* constructor raise the type-mismatch error, compatible ones are children
C11_Constructor ==
  call.made /\ "cls" \in DOMAIN call /\ AllChannels(Attached(<<>>, call.ds_dict)) =>
    IF Mismatch(call.cls, Attached(<<>>, call.ds_dict))
      THEN ~built /\ err = TypeMismatch
      ELSE built /\ Reachable(implicit_nodes, Attached(<<>>, call.ds_dict))

\* C11, register_implicit_nodes: a mismatch raises the type-mismatch error and
\* leaves the children as they were, compatible channels become children
C11_Register ==
  \A channels \in ChanPositional, named_channels \in ChanKeywords :
    LET att == Attached(channels, named_channels)
    IN  RegisterImplicitNodes(2, channels, named_channels) /\ AllChannels(att) =>
          IF Mismatch(grp[2].cls, att)
            THEN err' = TypeMismatch /\ implicit_nodes' = implicit_nodes
            ELSE /\ err' \in {"ok", "ValueError: name conflicts"}
                 /\ err' = "ok" => Reachable(implicit_nodes', att)

\* C11: attaching a Channel to a CondNeuGroup, by the constructor's keyword
\* channels or by register_implicit_nodes, raises the type-mismatch error when
\* the group's class is no subclass of the channel's master_type, and the
\* channel is then no child; a compatible channel becomes a child reachable
\* under its name.
C11_ChannelTypeChecked == [][C11_Constructor' /\ C11_Register]_vars


\* the bump the synapse adds to post for one pre spike
Bump == syn2post_with_one2one(1, twoEnd[1].g_max)

PreSpike(k) == IF k \in 1..Len(trace) THEN trace[k][2].spike ELSE 0

\* C12: in a Network of pre, post and a one-to-one synapse, the input post
\* integrates at tick k + 1 is one bump when pre spiked at tick k and nothing
\* when it did not; so a single spike at tick 5 shows at tick 6 and at no
\* other tick
C12_SpikeArrivesNextTick ==
  \A k \in 1..Len(trace) :
    trace[k][3].input = IF PreSpike(k - 1) = 1 THEN Bump ELSE 0

C12_Witness ==
  /\ Len(trace) = 6
  /\ \A k \in 1..6 : PreSpike(k) = (IF k = 5 THEN 1 ELSE 0)
  /\ trace[6][3].input = Bump
  /\ Bump # 0
  /\ \A k \in 1..5 : trace[k][3].input = 0

\* C13: CondNeuGroup.reset_state(b) leaves V, spike and input with the shape
\* (b,) + varshape, and reset_state(None) with exactly varshape, whatever
\* their shapes were before and whatever the mode
C13_ResetShapes ==
  [][\A b \in BatchSizes :
       GroupResetState(2, b) =>
         /\ grp'[2].V.shape = get_batch_shape(grp[2], b)
         /\ grp'[2].spike.shape = get_batch_shape(grp[2], b)
         /\ grp'[2].input.shape = get_batch_shape(grp[2], b)
         /\ b = PyNone => grp'[2].input.shape = varshape(grp[2])]_vars

\* a batching-mode group, reset with batch size 3 earlier, is back at varshape
C13_Witness ==
  /\ 2 \in DOMAIN grp
  /\ grp[2].mode = PyMode("batching")
  /\ grp[2].keep_size
  /\ grp[2].V.shape = <<2, 3>>
  /\ grp[2].input.shape = <<2, 3>>
  /\ grp[2].spike.shape = <<2, 3>>

\* the given components of a constructor call
Given(output, stp, ltp) == {x \in {output, stp, ltp} : x.kind = "comp"}

\* C19: a component is bound to the first SynConn registered as its master:
\* registering the same one again succeeds, a different one or a non-SynConn
\* raises and leaves the master as it was, and constructing a TwoEndConn with
\* a component bound to another connection fails
C19_OneMaster ==
  [][/\ \A c \in Comps : master[c] # 0 => master'[c] = master[c]
     /\ \A c \in Comps, m \in MasterChoices :
          RegisterMaster(c, m) =>
            IF IsSynConnValue(m) /\ master[c] \in {0, m.id}
              THEN err' = "ok" /\ master' = [master EXCEPT ![c] = m.id]
              ELSE err' # "ok" /\ master' = master
     /\ \A o \in Conns, pre \in {PyNode(2), PyNode(3)}, output \in CompChoices,
           stp \in CompChoices, ltp \in CompChoices :
          (/\ ConstructTwoEndConn(o, pre, PyNode(2), output, stp, ltp)
           /\ \E x \in Given(output, stp, ltp) : master[x.id] \notin {0, o})
            => err' # "ok" /\ ~twoEnd'[o].made]_vars

\* connection 1 was built with component 1, and connection 4 was then refused it
C19_Witness ==
  /\ twoEnd[1].made
  /\ twoEnd[1].output = PyComp(1)
  /\ master[1] = 1
  /\ twoEnd[4] = [made |-> FALSE, failed |-> TRUE]
  /\ err = MasterRegistered


\* the children in the order Network.reset_state promises
ResetOrder(nodes) ==
  SelectSeq(nodes, IsNeuGroup) \o SelectSeq(nodes, IsSynConn) \o SelectSeq(nodes, IsOther)

Calls(nodes, batch_size) ==
  [i \in 1..Len(nodes) |-> [node |-> nodes[i], batch_size |-> batch_size]]

\* the keys whose buffer an immediate child owns
ChildBuffers == {k \in Keys : HasBuffer(k) /\ ChildOwners(k) # {}}

\* the buffer of key k after the step, read at lag d
ReadAfter(k, d) == LengthDelayRetrieve(heap'[global_delay_data[k].delay], d)

NotImplementedErrors ==
  {"NotImplementedError: subclass of NeuGroup must implement update",
   "NotImplementedError: must be implemented by the subclass",
   "NotImplementedError: must implement update function by subclass"}

\* C15: update of a class that does not override it raises a not-implemented
\* error; the default reset_state calls reset_state(batch_size) once on every
\* immediate child, in the order of the child map, when there is a child, and
\* raises the not-implemented error naming the node, calling nothing, when
\* there is none
C15_DefaultUpdateReset ==
  [][/\ \A cls \in BaseClasses : BaseUpdate(cls) => err' \in NotImplementedErrors
     /\ \A b \in {PyNone, PyInt(2)} :
          DefaultResetState(b) =>
            IF ChildNodes(implicit_nodes) # <<>>
              THEN /\ err' = "ok"
                   /\ resetLog' = Calls(ChildNodes(implicit_nodes), b)
                   /\ \A n \in Nodes :
                        Cardinality({i \in 1..Len(resetLog') : resetLog'[i].node = n})
                          = IF \E i \in 1..Len(implicit_nodes) :
                                 implicit_nodes[i][2] = PyNode(n)
                              THEN 1 ELSE 0
              ELSE /\ err' = NoResetState
                   /\ resetLog' = <<>>
                   /\ V' = V]_vars

\* a container built as (SynConn, other, NeuGroup) was reset by the default
\* reset_state with batch size 2
C15_Witness ==
  /\ call.ds_tuple = <<PyNode(1), PyNode(3), PyNode(2)>>
  /\ resetLog = Calls(<<1, 3, 2>>, PyInt(2))
  /\ err = "ok"
  /\ tick >= 1
  /\ V = [n \in Nodes |-> Val(n, 0)]


\* arguments register_delay is to refuse
BadArguments(delay_step, delay_target) ==
  \/ ~IsVariable(delay_target)
  \/ delay_step.kind = "array" /\ delay_step.dtype \notin {"int32", "int64"}
  \/ delay_step.kind = "array" /\ Len(delay_step.v) # VecLen
  \/ delay_step.kind = "str"

\* C16: register_delay raises and leaves the registry and the node's local
\* map as they were when the target is no Variable (whatever the steps), when
\* a step tensor is not of integer dtype or not of the target's length, and
\* when steps is of an unsupported type
C16_BadArgumentsRejected ==
  [][\A self \in Nodes, identifier \in Keys, delay_step \in RegSteps :
       \A delay_target \in RegTargets(identifier) :
         (/\ RegisterDelay(self, identifier, delay_step, delay_target, PyNone)
          /\ BadArguments(delay_step, delay_target))
           => /\ err' # "ok"
              /\ global_delay_data' = global_delay_data
              /\ local_delay_vars' = local_delay_vars]_vars

\* the key is registered neither in the registry nor in self's local map
Unregistered(self, k) ==
  ~global_delay_data[k].has /\ ~CHas(local_delay_vars[self], k)

\* the key is registered without a buffer
PassThroughOnly(k) == global_delay_data[k].has /\ global_delay_data[k].delay = 0

\* C17: get_delay_data raises, and changes nothing, when the key is
\* registered neither in the registry nor in the node's local map, for steps
\* None, a scalar and a tensor, and when the key is registered without a
\* buffer and the steps are not None
C17_UnregisteredRead ==
  [][\A self \in Nodes, k \in Keys, delay_step \in ReadSteps :
       (/\ ReadDelay(self, k, delay_step)
        /\ \/ Unregistered(self, k)
           \/ PassThroughOnly(k) /\ delay_step # PyNone)
         => /\ err' # "ok"
            /\ ret' = PyNone
            /\ UNCHANGED <<V, global_delay_data, heap, local_delay_vars>>]_vars

\* key 2 is registered without a buffer, key 1 nowhere, and a read has just
\* been refused
C17_Witness ==
  /\ PassThroughOnly(2)
  /\ \A n \in Nodes : Unregistered(n, 1)
  /\ err = "TypeError: NoneType is not callable"
  /\ ret = PyNone

\* C18: on a buffer that holds lags up to the largest of a step tensor s,
\* get_delay_data(key, s) returns for every element e the value element e of
\* the target held s[e] ticks ago, or the fill where the buffer is younger;
\* for a scalar lag d it returns the whole slice of lag d
C18_HeterRead ==
  \A k \in Keys :
    HasBuffer(k) /\ reg[k].made /\ reg[k].good /\ Capacity(k) >= SeqMax(HeterSteps) =>
      \A self \in Nodes :
        /\ Read(self, k, PyArray("int32", HeterSteps)) =
             [err |-> "ok",
              val |-> [e \in 1..VecLen |-> Expected(k, HeterSteps[e])[e]]]
        /\ \A d \in 0..Capacity(k) :
             Read(self, k, PyInt(d)).val = [e \in 1..VecLen |-> Expected(k, d)[e]]

\* four ticks after the registration, element 1 reads its value of tick 3
\* (lag 1) and element 2 its value of tick 1 (lag 3)
C18_Witness ==
  /\ HasBuffer(1) /\ reg[1].made /\ reg[1].good
  /\ Capacity(1) = 3 /\ reg[1].age >= 3 /\ tick = 4
  /\ Read(3, 1, PyArray("int32", HeterSteps)).val =
       <<Val(TargetOf(1), 3)[1], Val(TargetOf(1), 1)[2]>>

\* the keys node n owns: those of its local delay map
OwnKeys(n) == {k \in Keys : CHas(local_delay_vars[n], k)}

\* C20: destroying a node removes from the registry the entry of every key
\* it owns and leaves the entries of the other keys as they were; afterwards
\* none of its keys is in the registry and its local map is empty
C20_TeardownReleases ==
  [][\A n \in Nodes :
       Destroy(n) =>
         /\ \A k \in OwnKeys(n) : ~global_delay_data'[k].has
         /\ \A k \in Keys \ OwnKeys(n) : global_delay_data'[k] = global_delay_data[k]
         /\ local_delay_vars'[n] = <<>>]_vars


\* the children of the Sequential, in insertion order
Children == CValues(implicit_nodes)

\* the child map that holds the given (name, child) pairs in that order
MapOf(items) == PySeq(items)

\* C25: seq[i] is child i; seq[a:b] is a Sequential of the children of the
\* slice under their names and in their order; seq[[i1, ..., im]] is a
\* Sequential of the children i1..im in that order; seq[name] is the child
\* of that name, and a KeyError for an unknown name
C25_PositionalAccess ==
  [][\A key \in SeqKeys :
       SequentialItem(key) =>
         CASE key.kind = "int" /\ key.n < Len(Children) ->
                err' = "ok" /\ ret' = Children[key.n + 1]
           [] key.kind = "slice" ->
                err' = "ok" /\ ret' = MapOf(Slice(implicit_nodes, key.a, key.b))
           [] key.kind = "list"
                /\ \A j \in 1..Len(key.items) : key.items[j].n < Len(Children) ->
                err' = "ok"
                /\ ret' = MapOf([j \in 1..Len(key.items) |->
                                   implicit_nodes[key.items[j].n + 1]])
           [] key.kind = "name" ->
                IF CHas(implicit_nodes, key.k)
                  THEN err' = "ok" /\ ret' = CGet(implicit_nodes, key.k)
                  ELSE err' = "KeyError: does not find a component"
           [] OTHER -> TRUE]_vars

RECURSIVE Chain(_, _)
Chain(nodes, x) == IF nodes = <<>> THEN x ELSE Chain(Tail(nodes), Out(Head(nodes).id, x))

\* C26: Sequential.update(shared, x) calls every child once in insertion
\* order with the same shared record, feeds the output of each child to the
\* next, and returns the output of the last, x itself without children
C26_SequentialChain ==
  [][\A x \in {0, 1} :
       SequentialUpdate(x, NetMaxTick) =>
         /\ err' = "ok"
         /\ updLog' = [j \in 1..Len(Children) |-> Children[j].id]
         /\ seen' = [j \in 1..Len(Children) |-> Shared(tick + 1)]
         /\ ret' = PyInt(Chain(Children, x))]_vars

\* a Sequential of (other, SynConn, NeuGroup) was given 1 and returned what
\* the NeuGroup made of what the SynConn made of what the other made of 1
C26_Witness ==
  /\ call.ds_tuple = <<PyNode(3), PyNode(1), PyNode(2)>>
  /\ updLog = <<3, 1, 2>>
  /\ ret = PyInt(Out(2, Out(1, Out(3, 1))))
  /\ Len(seen) = 3

\* the keys named by the arguments of a save
SavedKeys(args, kwargs) ==
  {args[j].k : j \in {n \in 1..Len(args) : args[n].kind = "key"}}
    \cup {kwargs[j][1] : j \in 1..Len(kwargs)}

Elems(t) == {t[j] : j \in 1..Len(t)}

\* dt as the property and as load('dt') give it
DtReads(a, v) ==
  /\ ShareDt(a) = v
  /\ \A d \in {PyNone, PyInt(0)} : ShareLoad(a, "dt", d) = [err |-> "ok", val |-> PyInt(v)]

\* C21: dt and load('dt') give the value most recently set through set_dt,
\* the dt setter or save(dt=...), and the global default when none was set
\* since construction or the last clear; load('dt') never raises.
C21_DtMostRecent ==
  [][/\ \A dt \in ShareVals : CtxSetDt(dt) \/ CtxDtSetter(dt) => DtReads(share', dt)
     /\ \A dt \in ShareVals : CtxSave(<<>>, <<<<"dt", dt>>>>) => DtReads(share', dt)
     /\ \A dt \in ShareVals :
          CtxSave(<<PyKey("dt"), PyInt(dt)>>, <<>>) => DtReads(share', dt)
     /\ CtxClear \/ CtxClearShargs(<<>>) \/ CtxClearShargs(<<"dt">>)
          => DtReads(share', DefaultDt)
     /\ \A args \in SaveArgs, kwargs \in SaveKwargs :
          CtxSave(args, kwargs) /\ "dt" \notin SavedKeys(args, kwargs)
            => DtReads(share', ShareDt(share))
     /\ \A args \in ClearArgs :
          CtxClearShargs(args) /\ args # <<>> /\ "dt" \notin Elems(args)
            => DtReads(share', ShareDt(share))
     /\ (CtxDt \/ CtxGetShargs \/ \E key \in ShareKeys, value \in {PyNone, PyInt(0)} :
                                     CtxLoad(key, value))
          => DtReads(share', ShareDt(share))
     /\ \A value \in {PyNone, PyInt(0)} :
          CtxLoad("dt", value) => err' = "ok" /\ ret' = PyInt(ShareDt(share))
     /\ CtxDt => ret' = PyInt(ShareDt(share))]_vars

\* dt was set, then cleared, and load('dt') gave the default
C21_Witness ==
  /\ ~share["dt"].has
  /\ share["t"].has
  /\ err = "ok"
  /\ ret = PyInt(DefaultDt)

\* what clear_shargs(k1, ..., kn) is said to leave
WithoutKeys(a, args) == [k \in ShareKeys |-> IF k \in Elems(args) THEN NotSaved ELSE a[k]]

\* after clear() or clear_shargs() nothing is saved
Cleared(a) ==
  /\ ShareGetShargs(a) = <<>>
  /\ \A k \in ShareKeys \ {"dt"} : ShareLoad(a, k, PyNone).err = NotShared
  /\ DtReads(a, DefaultDt)

\* C22: after clear(), or clear_shargs() without arguments, get_shargs() is
\* empty, load(key) without a default raises KeyError for every key but
\* 'dt', and dt is the default; clear_shargs(k1, ..., kn) removes exactly
\* the named keys and leaves every other key unchanged.
C22_ClearRemovesNamed ==
  [][/\ CtxClear \/ CtxClearShargs(<<>>) => Cleared(share')
     /\ \A args \in ClearArgs :
          CtxClearShargs(args) /\ args # <<>> => share' = WithoutKeys(share, args)]_vars

\* the named keys before the first one that is not saved
RECURSIVE SavedPrefix(_, _)
SavedPrefix(a, args) ==
  IF args = <<>> \/ ~a[Head(args)].has THEN <<>>
  ELSE <<Head(args)>> \o SavedPrefix([a EXCEPT ![Head(args)] = NotSaved], Tail(args))

\* C22, amended: clear() and clear_shargs() empty the context;
\* clear_shargs(k1, ..., kn) with every named key saved removes exactly the
\* named keys; with a named key that is not saved it raises KeyError, having
\* removed only the named keys before that one.
C22_ClearRemovesSaved ==
  [][/\ CtxClear \/ CtxClearShargs(<<>>) => Cleared(share') /\ err' = "ok"
     /\ \A args \in ClearArgs :
          CtxClearShargs(args) /\ args # <<>> =>
            /\ share' = WithoutKeys(share, SavedPrefix(share, args))
            /\ err' = IF SavedPrefix(share, args) = args THEN "ok" ELSE "KeyError"]_vars

\* clear_shargs removed a named key and left the other saved keys
C22_Witness ==
  /\ err = "ok"
  /\ ret = PyNone
  /\ ~share["t"].has /\ ~share["dt"].has
  /\ share["i"].has /\ share["x"].has

\* the value save is said to leave under key k
RECURSIVE LastSaved(_, _, _, _)
LastSaved(a, args, kwargs, k) ==
  IF kwargs # <<>> /\ kwargs[Len(kwargs)][1] = k THEN Saved(kwargs[Len(kwargs)][2])
  ELSE IF kwargs # <<>> THEN LastSaved(a, args, SubSeq(kwargs, 1, Len(kwargs) - 1), k)
  ELSE IF args # <<>> /\ args[Len(args) - 1].k = k THEN Saved(args[Len(args)].n)
  ELSE IF args # <<>> THEN LastSaved(a, SubSeq(args, 1, Len(args) - 2), kwargs, k)
  ELSE a[k]

\* C23: save(k1, v1, ..., kn, vn, **kw) stores every pair and every keyword:
\* afterwards each named key loads its most recent value and every other key
\* keeps its value.
C23_SaveStoresAll ==
  [][\A args \in SaveArgs, kwargs \in SaveKwargs :
       CtxSave(args, kwargs) /\ Len(args) % 2 = 0 =>
         /\ err' = "ok"
         /\ \A k \in ShareKeys : share'[k] = LastSaved(share, args, kwargs, k)]_vars

\* the children an update pass of the container at hand hands the record to
PassChildren ==
  IF DOMAIN grp = {} THEN Len(ChildNodes(implicit_nodes))
  ELSE Len(Channels(implicit_nodes))

\* C24: an update pass never changes the shared record of the tick:
\* Container.update, Network.update, Sequential.update and
\* CondNeuGroup.update hand the same record to every child, and after the
\* pass t, dt, i and the named scalar are what they were when it began.
C24_SharedUnchanged ==
  tick > 0 =>
    /\ tdi = Shared(tick)
    /\ Len(seen) = PassChildren
    /\ \A j \in 1..Len(seen) : seen[j] = Shared(tick)

\* the second pass over three children has handed each the record of tick 2
C24_Witness ==
  /\ tick = 2
  /\ Len(seen) = 3
  /\ seen[3] = Shared(2)
  /\ tdi = Shared(2)

\* C29: after every CondNeuGroup.update the spike flag is set exactly when
\* the voltage before the tick was below V_th and the integrator's result is
\* at or above it, so a unit that stays at or above threshold spikes only on
\* the first tick; the committed voltage is the integrator's result.
C29_SpikeOnCrossing ==
  [][GroupUpdate(2, MaxTick) =>
       /\ grp'[2].spike.val = 1 <=> grp[2].V.val < VTh /\ Integral(grp[2]) >= VTh
       /\ grp'[2].spike.val \in {0, 1}
       /\ grp[2].V.val >= VTh => grp'[2].spike.val = 0
       /\ grp'[2].V.val = Integral(grp[2])]_vars

\* the unit was at threshold, rose above it, and did not spike again
C29_Witness ==
  /\ 2 \in DOMAIN grp
  /\ grp[2].V.val = VTh + 1
  /\ grp[2].spike.val = 0
  /\ grp[2].input.val = 0
  /\ tick >= 2

\* the Channel children of the group
OwnedChannels == {x \in Elems(CValues(implicit_nodes)) : IsChannel(x)}

\* C30: in one CondNeuGroup.update every owned channel is updated exactly
\* once, after the membrane integration has been computed, and is given the
\* voltage from before the integration.
C30_ChannelsOnceWithOldVoltage ==
  [][GroupUpdate(2, MaxTick) =>
       /\ chanLog'[1].op = "integral"
       /\ chanLog'[1].V = grp[2].V.val
       /\ Len(chanLog') = 1 + Cardinality(OwnedChannels)
       /\ \A ch \in OwnedChannels :
            \E j \in 2..Len(chanLog') :
              /\ chanLog'[j].op = "update"
              /\ chanLog'[j].node = ch
              /\ chanLog'[j].V = grp[2].V.val
              /\ chanLog'[j].tdi = Shared(tick')
              /\ \A k \in 2..Len(chanLog') : chanLog'[k].node = ch => k = j]_vars

\* two channels were updated in a tick that changed the voltage
C30_Witness ==
  /\ Len(chanLog) = 3
  /\ chanLog[2].V # grp[2].V.val
  /\ chanLog[3].V = chanLog[2].V

\* the connection made as object 1, and the sizes of its groups
TheConn == twoEnd[1]

PreNum == NumOf(grp, TheConn.pre)

PostNum == NumOf(grp, TheConn.post)

\* C27: init_weights returns a weight shaped by the representation of the
\* connection: (pre.num,) for one-to-one, (pre.num, post.num) for all-to-all
\* and for dense, the number of connections for sparse, with the matching
\* connectivity artifact (none for one-to-one and all-to-all); the weight is
\* trainable exactly when the mode is Training; and the call raises,
\* returning nothing, for a comp_method other than 'sparse' and 'dense', a
\* sparse format other than 'csr' and 'ij', or a connection without
\* connectivity.
C27_WeightShapes ==
  [][\A comp_method \in CompMethods, sparse_data \in SparseFormats :
       CallInitWeights(1, comp_method, sparse_data) =>
         IF \/ comp_method \notin {"sparse", "dense"}
            \/ sparse_data \notin {"csr", "ij"}
            \/ TheConn.conn.kind = "none"
           THEN err' # "ok" /\ ret' = PyNone
         ELSE TheConn.conn.kind = "connector" =>
           /\ err' = "ok"
           /\ ret'.weight.trainable <=> TheConn.mode = PyMode("training")
           /\ CASE TheConn.conn.cls = "One2One" ->
                     ret'.weight.shape = <<PreNum>> /\ ret'.conn_mask = PyNone
                [] TheConn.conn.cls = "All2All" ->
                     ret'.weight.shape = <<PreNum, PostNum>> /\ ret'.conn_mask = PyNone
                [] OTHER ->
                     IF comp_method = "dense"
                       THEN /\ ret'.weight.shape = <<PreNum, PostNum>>
                            /\ ret'.conn_mask.kind = "conn_mat"
                       ELSE /\ ret'.weight.shape = <<TheConn.conn.nnz>>
                            /\ ret'.conn_mask.kind =
                                 (IF sparse_data = "csr" THEN "pre2post"
                                  ELSE "post_ids, pre_ids")]_vars

\* the construction is among those said to fail
Unbuildable(pre, post, conn) ==
  \/ ~(pre.kind = "node" /\ IsNeuGroup(pre.id))
  \/ ~(post.kind = "node" /\ IsNeuGroup(post.id))
  \/ conn.kind = "array" /\ conn.shape # <<NumOf(grp, pre.id), NumOf(grp, post.id)>>
  \/ conn.kind = "dict" /\ ("i" \notin conn.keys \/ "j" \notin conn.keys)
  \/ conn.kind \notin {"connector", "array", "dict", "str", "none"}

\* C28: the construction of a SynConn fails with a model-build error when pre
\* or post is no NeuGroup, when a matrix connectivity is not of shape
\* (pre.num, post.num), when a dict connectivity lacks 'i' or 'j', and for
\* a connectivity of any other unsupported type; otherwise the connection
\* holds the very pre and post it was given and a connectivity that is a
\* connector object, a name string or None.
C28_ConstructionValidated ==
  [][\A pre \in ConnEnds, post \in ConnEnds, conn \in ConnGiven, mode \in ConnModes :
       ConstructConn(1, pre, post, conn, mode) =>
         IF Unbuildable(pre, post, conn)
           THEN err' = BuildError /\ ~twoEnd'[1].made
         ELSE /\ err' = "ok"
              /\ twoEnd'[1].made
              /\ twoEnd'[1].pre = pre.id
              /\ twoEnd'[1].post = post.id
              /\ twoEnd'[1].conn.kind \in {"connector", "str", "none"}
              /\ conn.kind \in {"connector", "str", "none"} => twoEnd'[1].conn = conn
              /\ conn.kind = "array" => twoEnd'[1].conn.cls = "MatConn"
              /\ conn.kind = "dict" => twoEnd'[1].conn.cls = "IJConn"]_vars

\* a matrix of the right shape was accepted between groups 2 and 3
C28_Witness ==
  /\ twoEnd[1].made
  /\ twoEnd[1].pre = 2
  /\ twoEnd[1].post = 3
  /\ twoEnd[1].conn = PyConnector("MatConn", 1)
  /\ "mode" \in DOMAIN twoEnd[1]

\* what the synapse of the Network adds to the input of group g in a tick
\* that starts with the groups gs
SynapseInput(gs, g) ==
  IF g = twoEnd[1].post
    THEN syn2post_with_one2one(gs[twoEnd[1].pre].spike.val, twoEnd[1].g_max)
    ELSE 0

\* C31: the input accumulator of a CondNeuGroup is local to the tick: what
\* the driver wrote before the update and what the synapse, updated earlier
\* in the same Network.update, added is the input the integrator sees in
\* that tick; the accumulator is zero after every update; and nothing of it
\* is left for the integration of the next tick.
C31_InputTickLocal ==
  [][NetworkUpdate(SynMaxTick) /\ twoEnd[1].made =>
       \A g \in DOMAIN grp :
         /\ grp'[g].integrated = grp[g].input.val + SynapseInput(grp, g)
         /\ grp'[g].V.val = grp[g].V.val + grp[g].input.val + SynapseInput(grp, g)
         /\ grp'[g].input.val = 0]_vars

\* pre was driven over the threshold in one tick and post integrated the
\* bump in the next; in the tick after, with nothing supplied, both
\* integrated nothing
C31_Witness ==
  /\ Len(trace) = 3
  /\ trace[1][2].input = 1 /\ trace[1][2].spike = 1
  /\ trace[2][3].input = Bump /\ trace[2][2].input = 0
  /\ trace[3][3].input = 0 /\ trace[3][2].input = 0
  /\ \A g \in DOMAIN grp : grp[g].input.val = 0

\* the distinct immediate children of the composite
ImmediateChildren ==
  {x.id : x \in {y \in Elems(CValues(implicit_nodes)) : y.kind = "node"}}

\* how often node n was updated in the pass that left the log l
TimesUpdated(l, n) == Cardinality({j \in 1..Len(l) : l[j] = n})

\* C32: one update call of a composite updates every immediate child exactly
\* once: the three groups of Network.update are pairwise disjoint and cover
\* the children, also with a child that is a CondNeuGroup and with a child
\* bound under two names, and Container.update visits each distinct child
\* once.
C32_EachChildOnce ==
  [][NetworkUpdate(NetMaxTick) \/ ContainerUpdate(NetMaxTick) =>
       /\ \A n \in ImmediateChildren : TimesUpdated(updLog', n) = 1
       /\ Len(updLog') = Cardinality(ImmediateChildren)
       /\ \A n \in ImmediateChildren :
            Cardinality({c \in {"SynConn", "NeuGroup", "other"} :
                           \/ c = "SynConn" /\ IsSynConn(n)
                           \/ c = "NeuGroup" /\ IsNeuGroup(n)
                           \/ c = "other" /\ IsOther(n)}) = 1]_vars

\* a pass over three children, one of them a CondNeuGroup and one bound
\* under a second name
C32_Witness ==
  /\ tick = 1
  /\ 3 \in DOMAIN grp
  /\ Len(implicit_nodes) = 4
  /\ Cardinality(ImmediateChildren) = 3
  /\ Len(updLog) = 3

\* the live nodes that hold key k in their local delay map
LocalOwners(k) == {n \in alive : CHas(local_delay_vars[n], k)}

\* C33: after any sequence of register_delay calls and node destructions,
\* every key of a live node's local delay map is in the global registry with
\* a buffer, the very buffer of the local map, and no key is in the local
\* maps of two live nodes.
C33_RegistryConsistent ==
  \A k \in Keys :
    /\ Cardinality(LocalOwners(k)) <= 1
    /\ \A n \in LocalOwners(k) :
         /\ global_delay_data[k].has
         /\ global_delay_data[k].delay # 0
         /\ global_delay_data[k].delay = CGet(local_delay_vars[n], k)

\* the lags every registrant of a scalar delay of one step may read
SharedLags == {PyInt(0), PyInt(1)}

\* C34: destroying a node releases only the buffers it alone owns: when
\* nodes A and B have both registered key k with a delay, then after A is
\* destroyed k is still in the global registry and B reads every lag it
\* registered.
C34_SharedBufferSurvives ==
  [][\A a \in Nodes :
       Destroy(a) =>
         \A k \in Keys, b \in alive \ {a} :
           a \in users[k] /\ b \in users[k] /\ global_delay_data[k].has
             /\ global_delay_data[k].delay # 0 =>
               /\ global_delay_data'[k].has
               /\ \A d \in SharedLags :
                    GetDelayData(global_delay_data', heap', local_delay_vars'[b], V', k,
                                 d).err = "ok"]_vars

\* node n belongs to the tree of the root Network: the root itself, an
\* immediate child, or a node nested below an immediate child
InTree(n) ==
  \/ n \in ImmediateChildren
  \/ parent[n] = n
  \/ parent[n] \in ImmediateChildren

\* C35: after one update of a root Network every delay buffer registered by
\* a node of the tree - the Network itself, an immediate child, a node
\* nested below a generic Container or a CondNeuGroup child - has been
\* refreshed with its target's value exactly once.
C35_TreeRefreshed ==
  [][NetworkUpdate(NetMaxTick) =>
       \A k \in Keys :
         (/\ global_delay_data[k].has
          /\ global_delay_data[k].delay # 0
          /\ \E n \in users[k] : InTree(n))
           => writes'[k] = 1]_vars

=============================================================================
